---- MODULE Spec2Model ----
(***************************************************************************)
(* A model of the Artemis tick-by-tick backtesting engine:                 *)
(*   - LockFreeQueue (src/src/LockFreeQueue.hpp), one atomic access per    *)
(*     step, producers and the consumer interleaved freely;                *)
(*   - RollingStatistics and SignalGenerator (src/unnamed/part_000,        *)
(*     part_001, part_002), in exact rational arithmetic;                  *)
(*   - Backtester (src/unnamed/part_003), money in cents, prices in ticks. *)
(***************************************************************************)
EXTENDS Integers, Sequences, FiniteSets, TLC

(***************************************************************************)
(* Bounds of the model.                                                    *)
(***************************************************************************)
\* the ring has 2^CapLog2 slots
CapLog2 == 2
\* tryPush calls each producer thread makes
MaxPushes == 3
\* tryPush calls the producer thread makes when it is the only one
MaxPushesAlone == 5

\* the largest capacity a queue is constructed with
MaxCapacity == 5
\* calls a single thread makes on its queue
MaxSeqCalls == 4

\* lines of the data file after its header
MaxLines == 3
\* next calls made on one reader
MaxNextCalls == 6
\* reset calls made on one reader
MaxResets == 1

\* producer threads of the multi-producer deployment
ProducerIds == {1, 2}

(***************************************************************************)
(* LockFreeQueue<T>                                                        *)
(***************************************************************************)
VARIABLES
    producers,  \* the producer threads that run in this deployment
    capacity_,  \* const size_t capacity_
    mask_,      \* const size_t mask_
    buffer_,    \* std::atomic<T*>* buffer_ : slot index -> item or NULL
    head_,      \* std::atomic<size_t> head_
    tail_,      \* std::atomic<size_t> tail_
    ppc,        \* per producer: where it stands inside tryPush
    pItem,      \* per producer: the item argument of the call in progress
    pTail,      \* per producer: local currentTail
    pCalls,     \* per producer: tryPush calls started so far
    cpc,        \* the consumer: where it stands inside tryPop
    cHead,      \* the consumer: local currentHead
    cValue,     \* the consumer: local value
    alive,      \* FALSE once the destructor has run
    pushed,     \* items whose tryPush returned true, in return order
    refused,    \* items whose tryPush returned false
    popped,     \* items handed out by tryPop calls of the consumer thread
    drained     \* items handed out by the destructor's drain loop

\* RollingStatistics, SignalGenerator and their driver
VARIABLES
    stats,      \* the RollingStatistics object passed to generate
    gen,        \* the SignalGenerator object
    lastCall,   \* the generate call the latest step made, if it made one
    sigTrace    \* currentSignal() after each generate call so far

\* Backtester
VARIABLES
    bt,         \* the Backtester object's fields
    rn,         \* Backtester::run: its position and its locals
    drv         \* the caller of run: main, or a program that calls run again

\* one LockFreeQueue used by a single thread
VARIABLES
    sq,         \* the queue object, or what its construction ended in
    sqItem,     \* the T* variable the thread passes to tryPop
    sqPrev,     \* sq and sqItem as they were before the latest call
    sqHist      \* the calls made so far: operation, argument, return value

\* MarketDataReader and the loop that calls it
VARIABLES
    rd,         \* the MarketDataReader object
    rdTick,     \* the Tick variable passed to next
    rdLast,     \* the latest call on the reader and how it ended
    rdPass,     \* what the current iteration pass has delivered so far
    rdFile      \* the lines the data file was written with

\* a RollingStatistics object fed with samples
VARIABLES
    fed,        \* the samples passed to update so far
    prior       \* the object as it was before the latest update

\* MarketDataReader objects constructed, moved and destroyed
VARIABLES
    objs,       \* per variable of type MarketDataReader: the object it holds
    maps        \* the mappings established so far and what became of them

VARIABLES
    feed,       \* the ticks in the data file run is called with
    runs,       \* what each call of run on the file returned and left behind
    fill        \* the direct calls of updatePosition and closePosition so far

svars == <<stats, gen, lastCall, sigTrace>>
cvars == <<feed, runs, fill>>
tvars == <<fed, prior>>
mvars == <<objs, maps>>
sqvars == <<sq, sqItem, sqPrev, sqHist>>
rvars == <<rd, rdTick, rdLast, rdPass, rdFile>>
bvars == <<bt, rn, drv>>

qvars == <<producers, capacity_, mask_, buffer_, head_, tail_, ppc, pItem, pTail,
           pCalls, cpc, cHead, cValue, alive, pushed, refused, popped, drained>>
vars == <<qvars, svars, bvars, sqvars, rvars, tvars, mvars, cvars>>

\* nullptr
NULL == 0

\* a & b on size_t
RECURSIVE BitAnd(_, _)
BitAnd(a, b) ==
    IF a = 0 \/ b = 0 THEN 0
    ELSE (a % 2) * (b % 2) + 2 * BitAnd(a \div 2, b \div 2)

\* the ring size the deployments construct
Capacity == 2 ^ CapLog2

\* new int(i * numPushes + j): the j-th item of producer i, never nullptr
NewItem(p, j) == p * 10 + j

\* LockFreeQueue(capacity), for a capacity that passes the power-of-two test
QueueInit ==
    /\ capacity_ = Capacity
    /\ mask_ = Capacity - 1
    /\ BitAnd(capacity_, mask_) = 0
    /\ buffer_ = [i \in 0 .. Capacity - 1 |-> NULL]
    /\ head_ = 0
    /\ tail_ = 0
    /\ ppc = [p \in ProducerIds |-> "idle"]
    /\ pItem = [p \in ProducerIds |-> NULL]
    /\ pTail = [p \in ProducerIds |-> 0]
    /\ pCalls = [p \in ProducerIds |-> 0]
    /\ cpc = "idle"
    /\ cHead = 0
    /\ cValue = NULL
    /\ alive = TRUE
    /\ pushed = <<>>
    /\ refused = {}
    /\ popped = <<>>
    /\ drained = <<>>

\* tryPush, line 46: size_t currentTail = tail_.load(relaxed), with a fresh item
PushLoadTail(p) ==
    /\ alive
    /\ p \in producers
    /\ ppc[p] = "idle"
    /\ pCalls[p] < (IF producers = {p} THEN MaxPushesAlone ELSE MaxPushes)
    /\ pCalls' = [pCalls EXCEPT ![p] = @ + 1]
    /\ pItem' = [pItem EXCEPT ![p] = NewItem(p, pCalls[p] + 1)]
    /\ pTail' = [pTail EXCEPT ![p] = tail_]
    /\ ppc' = [ppc EXCEPT ![p] = "checkFull"]
    /\ UNCHANGED <<producers, capacity_, mask_, buffer_, head_, tail_, cpc, cHead,
                   cValue, alive, pushed, refused, popped, drained>>
    /\ UNCHANGED <<svars, bvars, sqvars, rvars, tvars, mvars, cvars>>

\* tryPush, lines 47-52: nextTail == head_.load(acquire) -> return false
PushCheckFull(p) ==
    /\ ppc[p] = "checkFull"
    /\ IF BitAnd(pTail[p] + 1, mask_) = head_
       THEN /\ refused' = refused \cup {pItem[p]}
            /\ ppc' = [ppc EXCEPT ![p] = "idle"]
       ELSE /\ refused' = refused
            /\ ppc' = [ppc EXCEPT ![p] = "cas"]
    /\ UNCHANGED <<producers, capacity_, mask_, buffer_, head_, tail_, pItem, pTail,
                   pCalls, cpc, cHead, cValue, alive, pushed, popped, drained>>
    /\ UNCHANGED <<svars, bvars, sqvars, rvars, tvars, mvars, cvars>>

\* tryPush, lines 55-58 and 63: buffer_[currentTail].compare_exchange_weak(nullptr, item)
PushCAS(p) ==
    /\ ppc[p] = "cas"
    /\ IF buffer_[pTail[p]] = NULL
       THEN /\ buffer_' = [buffer_ EXCEPT ![pTail[p]] = pItem[p]]
            /\ ppc' = [ppc EXCEPT ![p] = "storeTail"]
            /\ refused' = refused
       ELSE /\ buffer_' = buffer_
            /\ ppc' = [ppc EXCEPT ![p] = "idle"]
            /\ refused' = refused \cup {pItem[p]}
    /\ UNCHANGED <<producers, capacity_, mask_, head_, tail_, pItem, pTail, pCalls,
                   cpc, cHead, cValue, alive, pushed, popped, drained>>
    /\ UNCHANGED <<svars, bvars, sqvars, rvars, tvars, mvars, cvars>>

\* compare_exchange_weak may fail although the slot holds nullptr
PushCASSpurious(p) ==
    /\ ppc[p] = "cas"
    /\ buffer_[pTail[p]] = NULL
    /\ ppc' = [ppc EXCEPT ![p] = "idle"]
    /\ refused' = refused \cup {pItem[p]}
    /\ UNCHANGED <<producers, capacity_, mask_, buffer_, head_, tail_, pItem, pTail,
                   pCalls, cpc, cHead, cValue, alive, pushed, popped, drained>>
    /\ UNCHANGED <<svars, bvars, sqvars, rvars, tvars, mvars, cvars>>

\* tail_ is left where it was after the slot has been filled
PushStoreTailKeepsTail(p) ==
    /\ ppc[p] = "storeTail"
    /\ pushed' = Append(pushed, pItem[p])
    /\ ppc' = [ppc EXCEPT ![p] = "idle"]
    /\ UNCHANGED <<producers, capacity_, mask_, buffer_, head_, tail_, pItem, pTail,
                   pCalls, cpc, cHead, cValue, alive, refused, popped, drained>>
    /\ UNCHANGED <<svars, bvars, sqvars, rvars, tvars, mvars, cvars>>

\* tryPush, lines 59-60: tail_.store(nextTail, release); return true
PushStoreTail(p) ==
    /\ ppc[p] = "storeTail"
    /\ tail_' = BitAnd(pTail[p] + 1, mask_)
    /\ pushed' = Append(pushed, pItem[p])
    /\ ppc' = [ppc EXCEPT ![p] = "idle"]
    /\ UNCHANGED <<producers, capacity_, mask_, buffer_, head_, pItem, pTail, pCalls,
                   cpc, cHead, cValue, alive, refused, popped, drained>>
    /\ UNCHANGED <<svars, bvars, sqvars, rvars, tvars, mvars, cvars>>

\* tryPop, lines 68-72: currentHead = head_.load(relaxed); currentHead ==
\* tail_.load(acquire) -> return false.  head_ is written by the consumer only,
\* so its load and the load of tail_ are one step.
PopCheckEmpty ==
    /\ alive
    /\ cpc = "idle"
    /\ cHead' = head_
    /\ cpc' = IF head_ = tail_ THEN "idle" ELSE "loadSlot"
    /\ UNCHANGED <<producers, capacity_, mask_, buffer_, head_, tail_, ppc, pItem,
                   pTail, pCalls, cValue, alive, pushed, refused, popped, drained>>
    /\ UNCHANGED <<svars, bvars, sqvars, rvars, tvars, mvars, cvars>>

\* tryPop, lines 74-77: value = buffer_[currentHead].load(acquire); nullptr -> false
PopLoadSlot ==
    /\ cpc = "loadSlot"
    /\ cValue' = buffer_[cHead]
    /\ cpc' = IF buffer_[cHead] = NULL THEN "idle" ELSE "cas"
    /\ UNCHANGED <<producers, capacity_, mask_, buffer_, head_, tail_, ppc, pItem,
                   pTail, pCalls, cHead, alive, pushed, refused, popped, drained>>
    /\ UNCHANGED <<svars, bvars, sqvars, rvars, tvars, mvars, cvars>>

\* tryPop, lines 79-82 and 87: buffer_[currentHead].compare_exchange_strong(value, nullptr)
PopCAS ==
    /\ cpc = "cas"
    /\ IF buffer_[cHead] = cValue
       THEN /\ buffer_' = [buffer_ EXCEPT ![cHead] = NULL]
            /\ cpc' = "storeHead"
       ELSE /\ buffer_' = buffer_
            /\ cpc' = "idle"
    /\ UNCHANGED <<producers, capacity_, mask_, head_, tail_, ppc, pItem, pTail,
                   pCalls, cHead, cValue, alive, pushed, refused, popped, drained>>
    /\ UNCHANGED <<svars, bvars, sqvars, rvars, tvars, mvars, cvars>>

\* PopStoreHead with head_ advanced by two slots
PopStoreHeadSkipsSlot ==
    /\ cpc = "storeHead"
    /\ head_' = BitAnd(cHead + 2, mask_)
    /\ popped' = Append(popped, cValue)
    /\ cpc' = "idle"
    /\ UNCHANGED <<producers, capacity_, mask_, buffer_, tail_, ppc, pItem, pTail,
                   pCalls, cHead, cValue, alive, pushed, refused, drained>>
    /\ UNCHANGED <<svars, bvars, sqvars, rvars, tvars, mvars, cvars>>

\* tryPop, lines 82-84: item = value; head_.store((currentHead + 1) & mask_); return true
PopStoreHead ==
    /\ cpc = "storeHead"
    /\ head_' = BitAnd(cHead + 1, mask_)
    /\ popped' = Append(popped, cValue)
    /\ cpc' = "idle"
    /\ UNCHANGED <<producers, capacity_, mask_, buffer_, tail_, ppc, pItem, pTail,
                   pCalls, cHead, cValue, alive, pushed, refused, drained>>
    /\ UNCHANGED <<svars, bvars, sqvars, rvars, tvars, mvars, cvars>>

\* ~LockFreeQueue, lines 29-32: while (tryPop(item)) delete item; run by the one
\* thread left, so each tryPop runs without interleaving.  The items it hands out,
\* from ring b with head h and tail t.
RECURSIVE DrainItems(_, _, _)
DrainItems(b, h, t) ==
    IF h = t \/ b[h] = NULL THEN <<>>
    ELSE <<b[h]>> \o DrainItems([b EXCEPT ![h] = NULL], BitAnd(h + 1, mask_), t)

\* ~LockFreeQueue: called once every thread has left the queue
Destructor ==
    /\ alive
    /\ cpc = "idle"
    /\ \A p \in ProducerIds : ppc[p] = "idle"
    /\ LET got == DrainItems(buffer_, head_, tail_) IN
         /\ drained' = got
         /\ buffer_' = [i \in DOMAIN buffer_ |->
                          IF \E k \in 1 .. Len(got) : got[k] = buffer_[i]
                          THEN NULL ELSE buffer_[i]]
         /\ head_' = BitAnd(head_ + Len(got), mask_)
    /\ alive' = FALSE
    /\ UNCHANGED <<producers, capacity_, mask_, tail_, ppc, pItem, pTail, pCalls, cpc,
                   cHead, cValue, pushed, refused, popped>>
    /\ UNCHANGED <<svars, bvars, sqvars, rvars, tvars, mvars, cvars>>

QueueNext ==
    \/ \E p \in ProducerIds : PushLoadTail(p)
    \/ \E p \in ProducerIds : PushCheckFull(p)
    \/ \E p \in ProducerIds : PushCAS(p)
    \/ \E p \in ProducerIds : PushCASSpurious(p)
    \/ \E p \in ProducerIds : PushStoreTail(p)
    \/ PopCheckEmpty
    \/ PopLoadSlot
    \/ PopCAS
    \/ PopStoreHead
    \/ Destructor

(***************************************************************************)
(* LockFreeQueue<T> used by one thread: each call runs to its end.         *)
(***************************************************************************)
\* size_t arithmetic wraps; the model's size_t is 16 bits wide
SizeModulus == 65536

\* a non-null word found outside the array
Garbage == 99

\* no queue object yet
NoQueue ==
    [state |-> "none", capacity_ |-> 0, mask_ |-> 0, buffer_ |-> <<>>,
     head_ |-> 0, tail_ |-> 0, outOfBounds |-> FALSE]

\* LockFreeQueue(capacity), lines 11-26: mask_(capacity - 1) in size_t, the test
\* (capacity & mask_) != 0 throws invalid_argument, the slots are set to nullptr
NewQueue(capacity) ==
    LET mask == (capacity - 1) % SizeModulus IN
    IF BitAnd(capacity, mask) # 0
    THEN [NoQueue EXCEPT !.state = "invalid_argument", !.capacity_ = capacity]
    ELSE [state |-> "built", capacity_ |-> capacity, mask_ |-> mask,
          buffer_ |-> [i \in 0 .. capacity - 1 |-> NULL],
          head_ |-> 0, tail_ |-> 0, outOfBounds |-> FALSE]

\* buffer_[i]: a slot of the array, or the word `beyond` when i is outside it
Slot(q, i, beyond) == IF i \in DOMAIN q.buffer_ THEN q.buffer_[i] ELSE beyond

\* buffer_[i] = v; a store outside the array hits memory the queue does not own
StoreSlot(q, i, v) ==
    IF i \in DOMAIN q.buffer_
    THEN [q EXCEPT !.buffer_ = [@ EXCEPT ![i] = v]]
    ELSE [q EXCEPT !.outOfBounds = TRUE]

\* tryPush(item), lines 41-64, run to its end by one thread.  weakFails: the
\* compare_exchange_weak fails although the slot holds nullptr.
tryPush(q, item, weakFails, beyond) ==
    IF item = NULL THEN [q |-> q, ret |-> FALSE]
    ELSE LET currentTail == q.tail_
             nextTail == BitAnd(currentTail + 1, q.mask_)
         IN  IF nextTail = q.head_ THEN [q |-> q, ret |-> FALSE]
             ELSE IF Slot(q, currentTail, beyond) = NULL /\ ~weakFails
                  THEN [q |-> [StoreSlot(q, currentTail, item) EXCEPT !.tail_ = nextTail],
                        ret |-> TRUE]
                  ELSE [q |-> q, ret |-> FALSE]

\* tryPop(item), lines 67-88, run to its end by one thread
tryPop(q, item, beyond) ==
    LET currentHead == q.head_
        value == Slot(q, currentHead, beyond)
    IN  IF currentHead = q.tail_ THEN [q |-> q, ret |-> FALSE, item |-> item]
        ELSE IF value = NULL THEN [q |-> q, ret |-> FALSE, item |-> item]
        ELSE [q |-> [StoreSlot(q, currentHead, NULL)
                       EXCEPT !.head_ = BitAnd(currentHead + 1, q.mask_)],
              ret |-> TRUE, item |-> value]

SeqInit ==
    /\ sq = NoQueue
    /\ sqItem = NULL
    /\ sqPrev = [q |-> NoQueue, item |-> NULL]
    /\ sqHist = <<>>

\* LockFreeQueue<int> queue(capacity)
SeqConstruct ==
    /\ sq.state = "none"
    /\ \E capacity \in 0 .. MaxCapacity : sq' = NewQueue(capacity)
    /\ UNCHANGED <<sqItem, sqPrev, sqHist>>
    /\ UNCHANGED <<qvars, svars, bvars, rvars, tvars, mvars, cvars>>

\* queue.tryPush(item), with a new item or with nullptr
SeqPush ==
    /\ sq.state = "built"
    /\ Len(sqHist) < MaxSeqCalls
    /\ \E item \in {NULL, Len(sqHist) + 1}, weakFails \in BOOLEAN, beyond \in {NULL, Garbage} :
         LET r == tryPush(sq, item, weakFails, beyond) IN
           /\ sq' = r.q
           /\ sqHist' = Append(sqHist, [op |-> "tryPush", arg |-> item, ret |-> r.ret])
    /\ sqPrev' = [q |-> sq, item |-> sqItem]
    /\ UNCHANGED sqItem
    /\ UNCHANGED <<qvars, svars, bvars, rvars, tvars, mvars, cvars>>

\* queue.tryPop(item)
SeqPop ==
    /\ sq.state = "built"
    /\ Len(sqHist) < MaxSeqCalls
    /\ \E beyond \in {NULL, Garbage} :
         LET r == tryPop(sq, sqItem, beyond) IN
           /\ sq' = r.q
           /\ sqItem' = r.item
           /\ sqHist' = Append(sqHist, [op |-> "tryPop", arg |-> sqItem, ret |-> r.ret])
    /\ sqPrev' = [q |-> sq, item |-> sqItem]
    /\ UNCHANGED <<qvars, svars, bvars, rvars, tvars, mvars, cvars>>

SeqNext ==
    \/ SeqConstruct
    \/ SeqPush
    \/ SeqPop

(***************************************************************************)
(* MarketDataReader.  The mapped file is a sequence of characters; "LF"    *)
(* and "CR" stand for '\n' and '\r'.  Offsets count from 0 as in the code: *)
(* the character at offset k is data_[k + 1].                              *)
(***************************************************************************)
Digits == <<"0", "1", "2", "3", "4", "5", "6", "7", "8", "9">>

\* isspace, for the characters a line can hold
IsSpace(c) == c \in {"CR", " "}

IsDigit(c) == \E d \in 1 .. Len(Digits) : Digits[d] = c

DigitValue(c) == (CHOOSE d \in 1 .. Len(Digits) : Digits[d] = c) - 1

\* memchr(start + from, '\n', size - from): the offset of the first LF at or
\* after offset `from`, or -1 for a null result
memchr(data, from, size) ==
    IF \E k \in from .. size - 1 : data[k + 1] = "LF"
    THEN CHOOSE k \in from .. size - 1 :
           /\ data[k + 1] = "LF"
           /\ \A j \in from .. k - 1 : data[j + 1] # "LF"
    ELSE -1

\* MarketDataReader(filepath), lines 70-127: the file is opened and mapped
\* and the header line is skipped.  `mapped` is data_ != nullptr.  A file that
\* cannot be opened leaves data_ null and size_ 0 (lines 76-78, 98-100); when
\* the mapping fails (as it does for an empty file) data_ is null, and size_
\* is 0 on POSIX (lines 112-115) but the file's size on Windows (lines 85-93)
MarketDataReader(file) ==
    IF ~file.exists
    THEN [mapped |-> FALSE, data_ |-> <<>>, size_ |-> 0, position_ |-> 0]
    ELSE IF ~file.mappable \/ Len(file.bytes) = 0
    THEN [mapped |-> FALSE, data_ |-> <<>>,
          size_ |-> IF file.win32 THEN Len(file.bytes) ELSE 0, position_ |-> 0]
    ELSE LET size == Len(file.bytes)
             nl == memchr(file.bytes, 0, size)
         IN  [mapped |-> TRUE, data_ |-> file.bytes, size_ |-> size,
              position_ |-> IF nl # -1 /\ nl < size THEN nl + 1 ELSE 0]

\* isValid reporting on the size alone
isValidChecksSizeOnly(r) == r.size_ > 0

\* isValid(), line 40
isValid(r) == r.mapped /\ r.size_ > 0

\* reset with the cursor left where it is
resetKeepsPosition(r) == r

\* reset(), lines 221-231
reset(r) ==
    IF r.mapped /\ r.size_ > 0
    THEN LET nl == memchr(r.data_, 0, r.size_) IN
           [r EXCEPT !.position_ = IF nl # -1 THEN nl + 1 ELSE 0]
    ELSE [r EXCEPT !.position_ = 0]

\* std::getline(iss, token, ','), the stream standing at index pos of str: it
\* fails when no character is left, else it takes the characters up to the
\* next comma or to the end and consumes the comma
getline(str, pos) ==
    IF pos > Len(str) THEN [ok |-> FALSE, token |-> <<>>, pos |-> pos]
    ELSE LET stop == IF \E i \in pos .. Len(str) : str[i] = ","
                     THEN CHOOSE i \in pos .. Len(str) :
                            /\ str[i] = ","
                            /\ \A j \in pos .. i - 1 : str[j] # ","
                     ELSE Len(str) + 1
         IN  [ok |-> TRUE, token |-> SubSeq(str, pos, stop - 1), pos |-> stop + 1]

\* the value of the decimal digits token[from .. to]
RECURSIVE DecimalValue(_, _, _)
DecimalValue(token, from, to) ==
    IF to < from THEN 0
    ELSE 10 * DecimalValue(token, from, to - 1) + DigitValue(token[to])

\* std::stoll(token): leading whitespace is skipped, the longest run of
\* digits is converted and what follows it is ignored; no digit at all throws
\* std::invalid_argument
stoll(token) ==
    LET first == IF \E i \in 1 .. Len(token) : ~IsSpace(token[i])
                 THEN CHOOSE i \in 1 .. Len(token) :
                        /\ ~IsSpace(token[i])
                        /\ \A j \in 1 .. i - 1 : IsSpace(token[j])
                 ELSE Len(token) + 1
        last == IF \E i \in first .. Len(token) : ~IsDigit(token[i])
                THEN (CHOOSE i \in first .. Len(token) :
                        /\ ~IsDigit(token[i])
                        /\ \A j \in first .. i - 1 : IsDigit(token[j])) - 1
                ELSE Len(token)
    IN  IF last < first THEN [ok |-> FALSE, value |-> 0]
        ELSE [ok |-> TRUE, value |-> DecimalValue(token, first, last)]

\* std::stod(token), for tokens without a sign, a point or an exponent
stod(token) == stoll(token)

\* parseLine(line, len, tick), lines 166-185: ret is "true", "false", or
\* "invalid_argument" for the exception stoll and stod throw; the fields
\* converted before the line is given up stay written in tick
parseLine(line, tick) ==
    LET g1 == getline(line, 1)
        n1 == stoll(g1.token)
        t1 == [tick EXCEPT !.timestamp = n1.value]
        g2 == getline(line, g1.pos)
        n2 == stod(g2.token)
        t2 == [t1 EXCEPT !.bid = n2.value]
        g3 == getline(line, g2.pos)
        n3 == stod(g3.token)
        t3 == [t2 EXCEPT !.ask = n3.value]
        g4 == getline(line, g3.pos)
        n4 == stoll(g4.token)
        t4 == [t3 EXCEPT !.volume = n4.value]
    IN  IF ~g1.ok THEN [ret |-> "false", tick |-> tick]
        ELSE IF ~n1.ok THEN [ret |-> "invalid_argument", tick |-> tick]
        ELSE IF ~g2.ok THEN [ret |-> "false", tick |-> t1]
        ELSE IF ~n2.ok THEN [ret |-> "invalid_argument", tick |-> t1]
        ELSE IF ~g3.ok THEN [ret |-> "false", tick |-> t2]
        ELSE IF ~n3.ok THEN [ret |-> "invalid_argument", tick |-> t2]
        ELSE IF ~g4.ok THEN [ret |-> "false", tick |-> t3]
        ELSE IF ~n4.ok THEN [ret |-> "invalid_argument", tick |-> t3]
        ELSE [ret |-> "true", tick |-> t4]

\* PositionAfterRecord with the cursor left where the record starts
PositionAfterRecordStays(current, nl) == current

\* next, line 213: position_ = (nl - start) + 1 once the line has parsed
PositionAfterRecord(current, nl) == nl + 1

\* EmptyLineResult with the cursor moved past the line
EmptyLineResultMovesOn(r, tick, nl) ==
    [r |-> [r EXCEPT !.position_ = nl + 1], ret |-> "false", tick |-> tick, offset |-> -1]

\* next, lines 202-204: if (nl <= current) return false
EmptyLineResult(r, tick, nl) ==
    [r |-> r, ret |-> "false", tick |-> tick, offset |-> -1]

\* next(tick), lines 187-219: ret is "true", "false", or "invalid_argument"
\* when parseLine throws (position_ is then not yet advanced); offset is where
\* the delivered record starts
RECURSIVE next(_, _)
next(r, tick) ==
    IF ~r.mapped \/ r.position_ >= r.size_
    THEN [r |-> r, ret |-> "false", tick |-> tick, offset |-> -1]
    ELSE LET current == r.position_
             found == memchr(r.data_, current, r.size_)
             nl == IF found = -1 THEN r.size_ ELSE found
         IN  IF nl <= current THEN EmptyLineResult(r, tick, nl)
             ELSE LET rawLen == nl - current
                      lineLen == IF rawLen > 0 /\ r.data_[current + rawLen] = "CR"
                                 THEN rawLen - 1 ELSE rawLen
                      p == IF lineLen > 0
                           THEN parseLine(SubSeq(r.data_, current + 1, current + lineLen),
                                          tick)
                           ELSE [ret |-> "false", tick |-> tick]
                  IN  IF p.ret = "true"
                      THEN [r |-> [r EXCEPT !.position_ = PositionAfterRecord(current, nl)],
                            ret |-> "true", tick |-> p.tick, offset |-> current]
                      ELSE IF p.ret = "invalid_argument"
                      THEN [r |-> r, ret |-> "invalid_argument", tick |-> p.tick,
                            offset |-> -1]
                      ELSE next([r EXCEPT !.position_ = nl + 1], p.tick)

(***************************************************************************)
(* The data files and the loop that reads them                             *)
(***************************************************************************)
\* the header line "t,b,a,v"
Header == <<"t", ",", "b", ",", "a", ",", "v">>

\* the lines a file is written with: two records, a line of three fields, a
\* line whose first field is not a number, and an empty line
LineKinds == {"rec1", "rec2", "short", "text", "blank"}

LineText(kind) ==
    CASE kind = "rec1" -> <<"1", ",", "2", ",", "2", ",", "5">>
      [] kind = "rec2" -> <<"2", ",", "4", ",", "6", ",", "1", "0">>
      [] kind = "short" -> <<"3", ",", "4", ",", "4">>
      [] kind = "text" -> <<"x", ",", "4", ",", "4", ",", "7">>
      [] kind = "blank" -> <<>>

\* the line terminators a file is written with
LineEndings == {<<"LF">>, <<"CR", "LF">>}

RECURSIVE Concat(_)
Concat(parts) == IF parts = <<>> THEN <<>> ELSE Head(parts) \o Concat(Tail(parts))

\* the bytes of a file: the header and the lines, each followed by the line
\* ending, the last one only when the file ends in a newline
FileBytes(lines, eol, finalNewline) ==
    LET all == <<Header>> \o [i \in 1 .. Len(lines) |-> LineText(lines[i])]
        body == Concat([i \in 1 .. Len(all) |->
                          IF i < Len(all) \/ finalNewline THEN all[i] \o eol ELSE all[i]])
    IN  body

\* the file that cannot be opened
MissingFile ==
    [exists |-> FALSE, mappable |-> FALSE, win32 |-> FALSE, lines |-> <<>>,
     eol |-> <<"LF">>, finalNewline |-> TRUE, bytes |-> <<>>]

\* files that open but cannot be mapped, on either platform: an empty file,
\* and a file with a header and a record whose mapping is refused
UnmappableFiles ==
    {[exists |-> TRUE, mappable |-> FALSE, win32 |-> w, lines |-> ls,
      eol |-> <<"LF">>, finalNewline |-> TRUE,
      bytes |-> IF ls = <<>> THEN <<>> ELSE FileBytes(ls, <<"LF">>, TRUE)] :
        w \in BOOLEAN, ls \in {<<>>, <<"rec1">>}}

\* the files the reader is constructed on
Files ==
    {[exists |-> TRUE, mappable |-> TRUE, win32 |-> FALSE, lines |-> ls, eol |-> eol,
      finalNewline |-> fin, bytes |-> FileBytes(ls, eol, fin)] :
        ls \in UNION {[1 .. n -> LineKinds] : n \in 0 .. MaxLines},
        eol \in LineEndings, fin \in BOOLEAN}
    \cup UnmappableFiles \cup {MissingFile}

\* Tick tick; the variable passed to next
BlankTick == [timestamp |-> 0, bid |-> 0, ask |-> 0, volume |-> 0]

NoReaderCall == [op |-> "none", ret |-> "none", endedBefore |-> FALSE]

NewPass == [delivered |-> <<>>, ended |-> FALSE, nextCalls |-> 0, resets |-> 0]

\* MarketDataReader reader(file)
ReaderInit(file) ==
    /\ rdFile = file
    /\ rd = MarketDataReader(file)
    /\ rdTick = BlankTick
    /\ rdLast = NoReaderCall
    /\ rdPass = NewPass

\* reader.next(tick)
ReaderNext ==
    /\ rdPass.nextCalls < MaxNextCalls
    /\ LET n == next(rd, rdTick) IN
         /\ rd' = n.r
         /\ rdTick' = n.tick
         /\ rdLast' = [op |-> "next", ret |-> n.ret, endedBefore |-> rdPass.ended]
         /\ rdPass' = [rdPass EXCEPT
                         !.nextCalls = @ + 1,
                         !.ended = @ \/ n.ret = "false",
                         !.delivered = IF n.ret = "true"
                                       THEN Append(@, [tick |-> n.tick,
                                                       offset |-> n.offset])
                                       ELSE @]
    /\ UNCHANGED rdFile
    /\ UNCHANGED <<qvars, svars, bvars, sqvars, tvars, mvars, cvars>>

\* reader.reset(): a new pass begins
ReaderReset ==
    /\ rdPass.resets < MaxResets
    /\ rd' = reset(rd)
    /\ rdLast' = [op |-> "reset", ret |-> "none", endedBefore |-> rdPass.ended]
    /\ rdPass' = [rdPass EXCEPT !.delivered = <<>>, !.ended = FALSE, !.resets = @ + 1]
    /\ UNCHANGED <<rdTick, rdFile>>
    /\ UNCHANGED <<qvars, svars, bvars, sqvars, tvars, mvars, cvars>>

ReaderStep ==
    \/ ReaderNext
    \/ ReaderReset

(***************************************************************************)
(* Arithmetic on doubles: a value is a fraction <<n, d>>, d > 0, in lowest *)
(* terms.  The operations below are exact; Fl rounds a result to a binary  *)
(* significand of the given width.                                         *)
(***************************************************************************)
Abs(x) == IF x < 0 THEN -x ELSE x

RECURSIVE Gcd(_, _)
Gcd(a, b) == IF b = 0 THEN a ELSE Gcd(b, a % b)

\* the fraction n / d, d # 0
Rat(n, d) ==
    LET g == Gcd(Abs(n), Abs(d))
        s == IF d < 0 THEN -1 ELSE 1
    IN  <<(s * n) \div g, (s * d) \div g>>

Zero == <<0, 1>>
One == <<1, 1>>
RAdd(a, b) == Rat(a[1] * b[2] + b[1] * a[2], a[2] * b[2])
RSub(a, b) == Rat(a[1] * b[2] - b[1] * a[2], a[2] * b[2])
RMul(a, b) == Rat(a[1] * b[1], a[2] * b[2])
RDiv(a, b) == Rat(a[1] * b[2], a[2] * b[1])
RNeg(a) == <<-a[1], a[2]>>

\* a / b < c / d for b, d > 0, by comparing integer parts and then the
\* reciprocals of the remainders, so that no product is formed
RECURSIVE FracLess(_, _, _, _)
FracLess(a, b, c, d) ==
    IF a \div b # c \div d THEN a \div b < c \div d
    ELSE IF c % d = 0 THEN FALSE
    ELSE IF a % b = 0 THEN TRUE
    ELSE FracLess(d, c % d, b, a % b)

RLess(a, b) == FracLess(a[1], a[2], b[1], b[2])

RECURSIVE Pow2(_)
Pow2(k) == IF k = 0 THEN 1 ELSE 2 * Pow2(k - 1)

\* the binary exponent of n / d > 0 for a significand of p bits: the e with
\* 2^(p-1) <= (n / d) / 2^e < 2^p, counted from e
RECURSIVE Exponent(_, _, _, _)
Exponent(p, n, d, e) ==
    IF n < Pow2(p - 1) * d THEN Exponent(p, 2 * n, d, e - 1)
    ELSE IF n >= Pow2(p) * d THEN Exponent(p, n, 2 * d, e + 1)
    ELSE e

\* r rounded to the nearest binary floating-point number with a significand
\* of p bits, ties to the even significand (the IEEE 754 default; a double
\* has p = 53); the exponent range is not limited
Round(p, r) ==
    IF r[1] = 0 THEN Zero
    ELSE LET n == Abs(r[1])
             e == Exponent(p, n, r[2], 0)
             sn == IF e < 0 THEN n * Pow2(-e) ELSE n
             sd == IF e > 0 THEN r[2] * Pow2(e) ELSE r[2]
             m == sn \div sd
             rem == sn % sd
             mr == IF 2 * rem > sd \/ (2 * rem = sd /\ m % 2 = 1) THEN m + 1 ELSE m
             sign == IF r[1] < 0 THEN -1 ELSE 1
         IN  IF e >= 0 THEN Rat(sign * mr * Pow2(e), 1) ELSE Rat(sign * mr, Pow2(-e))

\* the result r of one operation on doubles: exact when p = 0 (real-number
\* arithmetic), rounded to p bits otherwise
Fl(p, r) == IF p = 0 THEN r ELSE Round(p, r)

(***************************************************************************)
(* RollingStatistics.  The ring buffer_ and writeIndex_ are written by     *)
(* update and read by nothing, and are left out.                           *)
(***************************************************************************)
\* RollingStatistics(windowSize), computing with significands of p bits
\* (p = 0: exactly); `precision` is not a member, it says how the object's
\* doubles are computed
NewStatsIn(p, w) ==
    [windowSize_ |-> w, count_ |-> 0,
     alpha_ |-> Fl(p, RDiv(<<2, 1>>, Fl(p, <<w + 1, 1>>))),
     mean_ |-> Zero, variance_ |-> Zero, m2_ |-> Zero, precision |-> p]

\* RollingStatistics(windowSize), in real-number arithmetic
NewStats(w) == NewStatsIn(0, w)

\* updateEWMA taking the deviation from the updated mean
updateEWMAUsesNewMean(s, value) ==
    LET p == s.precision
        rest == Fl(p, RSub(One, s.alpha_))
        mean1 == Fl(p, RAdd(Fl(p, RMul(s.alpha_, value)), Fl(p, RMul(rest, s.mean_))))
        delta == Fl(p, RSub(value, mean1))
        var1 == Fl(p, RMul(rest, Fl(p, RAdd(s.variance_,
                          Fl(p, RMul(Fl(p, RMul(s.alpha_, delta)), delta))))))
    IN  [s EXCEPT !.mean_ = mean1,
                  !.variance_ = IF RLess(var1, Zero) THEN Zero ELSE var1]

\* updateEWMA with the squared deviation subtracted and no clamp at 0
updateEWMASubtracts(s, value) ==
    LET p == s.precision
        oldMean == s.mean_
        rest == Fl(p, RSub(One, s.alpha_))
        mean1 == Fl(p, RAdd(Fl(p, RMul(s.alpha_, value)), Fl(p, RMul(rest, s.mean_))))
        delta == Fl(p, RSub(value, oldMean))
        var1 == Fl(p, RMul(rest, Fl(p, RSub(s.variance_,
                          Fl(p, RMul(Fl(p, RMul(s.alpha_, delta)), delta))))))
    IN  [s EXCEPT !.mean_ = mean1, !.variance_ = var1]

\* updateEWMA(value); alpha_ * delta * delta is (alpha_ * delta) * delta
updateEWMA(s, value) ==
    LET p == s.precision
        oldMean == s.mean_
        rest == Fl(p, RSub(One, s.alpha_))
        mean1 == Fl(p, RAdd(Fl(p, RMul(s.alpha_, value)), Fl(p, RMul(rest, s.mean_))))
        delta == Fl(p, RSub(value, oldMean))
        var1 == Fl(p, RMul(rest, Fl(p, RAdd(s.variance_,
                          Fl(p, RMul(Fl(p, RMul(s.alpha_, delta)), delta))))))
    IN  [s EXCEPT !.mean_ = mean1,
                  !.variance_ = IF RLess(var1, Zero) THEN Zero ELSE var1]

\* update with the first sample dropped: the mean starts from 0
updateStartsFromZero(s, value) ==
    LET p == s.precision
        oldCount == s.count_
        t == [s EXCEPT !.count_ = oldCount + 1]
    IN  IF oldCount < s.windowSize_
        THEN IF oldCount = 0
             THEN [t EXCEPT !.mean_ = Zero, !.variance_ = Zero, !.m2_ = Zero]
             ELSE LET delta == Fl(p, RSub(value, s.mean_))
                      mean1 == Fl(p, RAdd(s.mean_,
                                          Fl(p, RDiv(delta, <<oldCount + 1, 1>>))))
                      delta2 == Fl(p, RSub(value, mean1))
                      m2n == Fl(p, RAdd(s.m2_, Fl(p, RMul(delta, delta2))))
                  IN  [t EXCEPT !.mean_ = mean1, !.m2_ = m2n,
                                !.variance_ = Fl(p, RDiv(m2n, <<oldCount + 1, 1>>))]
        ELSE updateEWMA(t, value)

\* update(value)
update(s, value) ==
    LET p == s.precision
        oldCount == s.count_
        t == [s EXCEPT !.count_ = oldCount + 1]
    IN  IF oldCount < s.windowSize_
        THEN IF oldCount = 0
             THEN [t EXCEPT !.mean_ = value, !.variance_ = Zero, !.m2_ = Zero]
             ELSE LET delta == Fl(p, RSub(value, s.mean_))
                      mean1 == Fl(p, RAdd(s.mean_,
                                          Fl(p, RDiv(delta, <<oldCount + 1, 1>>))))
                      delta2 == Fl(p, RSub(value, mean1))
                      m2n == Fl(p, RAdd(s.m2_, Fl(p, RMul(delta, delta2))))
                  IN  [t EXCEPT !.mean_ = mean1, !.m2_ = m2n,
                                !.variance_ = Fl(p, RDiv(m2n, <<oldCount + 1, 1>>))]
        ELSE updateEWMA(t, value)

\* isReady with the window counted one sample too long
isReadyStrict(s) == s.count_ > s.windowSize_

\* isReady()
isReady(s) == s.count_ >= s.windowSize_

\* stddev() > 1e-10.  A variance of the model is a fraction whose denominator
\* is below 2^31, so it exceeds 1e-20 exactly when it is positive.
StddevAboveEps(s) == s.variance_[1] > 0

\* zscore without the guard on the standard deviation
zscoreIgnoresSpread(s, value) ==
    [num |-> RSub(value, s.mean_),
     var |-> IF StddevAboveEps(s) THEN s.variance_ ELSE One]

\* zscore with the deviation taken from the price to the mean
zscoreReversed(s, value) ==
    IF StddevAboveEps(s)
    THEN [num |-> RSub(s.mean_, value), var |-> s.variance_]
    ELSE [num |-> Zero, var |-> One]

\* zscore(value): the double (value - mean_) / sqrt(variance_), kept as the pair
\* [num, var] that stands for num / sqrt(var); 0.0 is [num |-> 0, var |-> 1]
zscore(s, value) ==
    IF StddevAboveEps(s)
    THEN [num |-> RSub(value, s.mean_), var |-> s.variance_]
    ELSE [num |-> Zero, var |-> One]

\* z < c for a zscore z and a fraction c
ZLess(z, c) ==
    LET n2 == RMul(z.num, z.num)
        c2v == RMul(RMul(c, c), z.var)
    IN  IF c[1] > 0 THEN z.num[1] <= 0 \/ RLess(n2, c2v)
        ELSE IF c[1] = 0 THEN z.num[1] < 0
        ELSE z.num[1] < 0 /\ RLess(c2v, n2)

\* z > c for a zscore z and a fraction c
ZGreater(z, c) == ZLess([z EXCEPT !.num = RNeg(@)], RNeg(c))

(***************************************************************************)
(* SignalGenerator.  lastZScore_ is written by generate and read by        *)
(* nothing, and is left out.                                               *)
(***************************************************************************)
\* SignalGenerator(threshold)
NewSignalGenerator(threshold) ==
    [threshold_ |-> threshold, currentSignal_ |-> "FLAT"]

\* NextSignal leaving LONG and SHORT only on a strict sign change
NextSignalStrictExit(cur, z, threshold) ==
    CASE cur = "FLAT" ->
             IF ZLess(z, RNeg(threshold)) THEN "LONG"
             ELSE IF ZGreater(z, threshold) THEN "SHORT"
             ELSE "FLAT"
      [] cur = "LONG" -> IF ZGreater(z, Zero) THEN "FLAT" ELSE "LONG"
      [] cur = "SHORT" -> IF ZLess(z, Zero) THEN "FLAT" ELSE "SHORT"

\* NextSignal reversing an open position when the opposite entry test passes
NextSignalReverses(cur, z, threshold) ==
    CASE cur = "FLAT" ->
             IF ZLess(z, RNeg(threshold)) THEN "LONG"
             ELSE IF ZGreater(z, threshold) THEN "SHORT"
             ELSE "FLAT"
      [] cur = "LONG" -> IF ZGreater(z, threshold) THEN "SHORT"
                         ELSE IF ~ZLess(z, Zero) THEN "FLAT" ELSE "LONG"
      [] cur = "SHORT" -> IF ZLess(z, RNeg(threshold)) THEN "LONG"
                          ELSE IF ~ZGreater(z, Zero) THEN "FLAT" ELSE "SHORT"

\* generate, lines 23-43: the switch on currentSignal_
NextSignal(cur, z, threshold) ==
    CASE cur = "FLAT" ->
             IF ZLess(z, RNeg(threshold)) THEN "LONG"
             ELSE IF ZGreater(z, threshold) THEN "SHORT"
             ELSE "FLAT"
      [] cur = "LONG" -> IF ~ZLess(z, Zero) THEN "FLAT" ELSE "LONG"
      [] cur = "SHORT" -> IF ~ZGreater(z, Zero) THEN "FLAT" ELSE "SHORT"

\* generate going FLAT when the statistics are not ready
generateResetsWhenNotReady(g, price, s) ==
    IF ~isReady(s)
    THEN [gen |-> [g EXCEPT !.currentSignal_ = "FLAT"], ret |-> "FLAT"]
    ELSE LET z == zscore(s, price)
             sig == NextSignal(g.currentSignal_, z, g.threshold_)
         IN  [gen |-> [g EXCEPT !.currentSignal_ = sig], ret |-> sig]

\* generate(price, stats): the generator after the call and the value returned
generate(g, price, s) ==
    IF ~isReady(s)
    THEN [gen |-> g, ret |-> "FLAT"]
    ELSE LET z == zscore(s, price)
             sig == NextSignal(g.currentSignal_, z, g.threshold_)
         IN  [gen |-> [g EXCEPT !.currentSignal_ = sig], ret |-> sig]

(***************************************************************************)
(* A driver of SignalGenerator: it feeds samples to a RollingStatistics,   *)
(* replaces it by a new one, changes the threshold, and calls generate.    *)
(***************************************************************************)
\* sample values and prices the drivers use
Prices == {1, 2, 3, 4, 6}

\* positive thresholds the drivers use: 1/2 and 1
Thresholds == {<<1, 2>>, <<1, 1>>}

\* the model's stand-in for the window run gives its statistics
WindowSize == 2
\* samples one RollingStatistics object absorbs in the signal driver
MaxUpdates == 3
\* generate calls the signal driver makes
MaxCalls == 3

NoCall == [made |-> FALSE]

SignalInit ==
    /\ stats = NewStats(WindowSize)
    /\ lastCall = NoCall
    /\ sigTrace = <<>>

\* stats.update(value)
SigUpdate ==
    /\ stats.count_ < MaxUpdates
    /\ \E x \in Prices : stats' = update(stats, <<x, 1>>)
    /\ lastCall' = NoCall
    /\ UNCHANGED <<gen, sigTrace>>
    /\ UNCHANGED <<qvars, bvars, sqvars, rvars, tvars, mvars, cvars>>

\* RollingStatistics stats(windowSize): the next call gets another object
SigNewStats ==
    /\ stats.count_ > 0
    /\ stats' = NewStats(WindowSize)
    /\ lastCall' = NoCall
    /\ UNCHANGED <<gen, sigTrace>>
    /\ UNCHANGED <<qvars, bvars, sqvars, rvars, tvars, mvars, cvars>>

\* setThreshold(threshold)
setThreshold ==
    /\ \E t \in Thresholds : t # gen.threshold_ /\ gen' = [gen EXCEPT !.threshold_ = t]
    /\ lastCall' = NoCall
    /\ UNCHANGED <<stats, sigTrace>>
    /\ UNCHANGED <<qvars, bvars, sqvars, rvars, tvars, mvars, cvars>>

\* gen.generate(price, stats)
SigGenerate ==
    /\ Len(sigTrace) < MaxCalls
    /\ \E price \in Prices :
         LET r == generate(gen, <<price, 1>>, stats) IN
           /\ gen' = r.gen
           /\ lastCall' = [made |-> TRUE, price |-> price, ready |-> isReady(stats),
                           before |-> gen, z |-> zscore(stats, <<price, 1>>),
                           ret |-> r.ret]
           /\ sigTrace' = Append(sigTrace, r.gen.currentSignal_)
    /\ UNCHANGED stats
    /\ UNCHANGED <<qvars, bvars, sqvars, rvars, tvars, mvars, cvars>>

SignalNext ==
    \/ SigUpdate
    \/ SigNewStats
    \/ setThreshold
    \/ SigGenerate

(***************************************************************************)
(* Backtester.  Prices are in ticks of tickSize_ = 0.25, money in cents.   *)
(***************************************************************************)
\* equity_(100000.0), in cents
StartingCapital == 10000000
\* commission = 2.10, in cents
Commission == 210
\* slippage = 1.0, in ticks
SlippageTicks == 1
\* tickSize_ = 0.25, in hundredths
TickSize == 25
\* (fillPrice - entryPrice_) * 50
Multiplier == 50
\* 1e6 microseconds in a second
MicrosPerSecond == 1000000

\* Backtester(commission, slippage)
NewBacktester ==
    [commission_ |-> Commission,
     slippage_ |-> SlippageTicks,
     currentPosition_ |-> "FLAT",
     entryPrice_ |-> 0,
     entryTime_ |-> 0,
     equity_ |-> StartingCapital,
     peakEquity_ |-> StartingCapital,
     maxDrawdown_ |-> Zero,
     trades_ |-> <<>>,
     equityCurve_ |-> <<StartingCapital>>,
     equityTimestamps_ |-> <<0>>]

\* getFillPrice without slippage
getFillPriceAtMid(b, midPrice, direction) == midPrice

\* getFillPrice(midPrice, direction)
getFillPrice(b, midPrice, direction) ==
    IF direction = "LONG" THEN midPrice + b.slippage_
    ELSE IF direction = "SHORT" THEN midPrice - b.slippage_
    ELSE midPrice

\* closePosition logging the two times of the trade the wrong way round
closePositionSwapsTimes(b, price, timestamp) ==
    IF b.currentPosition_ = "FLAT" THEN b
    ELSE LET exitDirection == IF b.currentPosition_ = "LONG" THEN "SHORT" ELSE "LONG"
             fillPrice == getFillPrice(b, price, exitDirection)
             gross == IF b.currentPosition_ = "LONG"
                      THEN (fillPrice - b.entryPrice_) * TickSize * Multiplier
                      ELSE (b.entryPrice_ - fillPrice) * TickSize * Multiplier
             pnl == gross - b.commission_
             trade == [entryTime |-> timestamp, exitTime |-> b.entryTime_,
                       entryPrice |-> b.entryPrice_, exitPrice |-> fillPrice,
                       direction |-> b.currentPosition_, pnl |-> pnl,
                       duration |-> b.entryTime_ - timestamp]
         IN  [b EXCEPT !.equity_ = @ + pnl,
                       !.trades_ = Append(@, trade),
                       !.currentPosition_ = "FLAT"]

\* closePosition without the entry in the trade log
closePositionLogsNothing(b, price, timestamp) ==
    IF b.currentPosition_ = "FLAT" THEN b
    ELSE LET exitDirection == IF b.currentPosition_ = "LONG" THEN "SHORT" ELSE "LONG"
             fillPrice == getFillPrice(b, price, exitDirection)
             gross == IF b.currentPosition_ = "LONG"
                      THEN (fillPrice - b.entryPrice_) * TickSize * Multiplier
                      ELSE (b.entryPrice_ - fillPrice) * TickSize * Multiplier
             pnl == gross - b.commission_
         IN  [b EXCEPT !.equity_ = @ + pnl,
                       !.currentPosition_ = "FLAT"]

\* closePosition(price, timestamp)
closePosition(b, price, timestamp) ==
    IF b.currentPosition_ = "FLAT" THEN b
    ELSE LET exitDirection == IF b.currentPosition_ = "LONG" THEN "SHORT" ELSE "LONG"
             fillPrice == getFillPrice(b, price, exitDirection)
             gross == IF b.currentPosition_ = "LONG"
                      THEN (fillPrice - b.entryPrice_) * TickSize * Multiplier
                      ELSE (b.entryPrice_ - fillPrice) * TickSize * Multiplier
             pnl == gross - b.commission_
             trade == [entryTime |-> b.entryTime_, exitTime |-> timestamp,
                       entryPrice |-> b.entryPrice_, exitPrice |-> fillPrice,
                       direction |-> b.currentPosition_, pnl |-> pnl,
                       duration |-> timestamp - b.entryTime_]
         IN  [b EXCEPT !.equity_ = @ + pnl,
                       !.trades_ = Append(@, trade),
                       !.currentPosition_ = "FLAT"]

\* RecordEquity with the drawdown taken relative to the equity, not the peak
RecordEquityDividesByEquity(b, timestamp) ==
    LET peak == IF b.equity_ > b.peakEquity_ THEN b.equity_ ELSE b.peakEquity_
        drawdown == Rat(peak - b.equity_, b.equity_)
    IN  [b EXCEPT !.equityCurve_ = Append(@, b.equity_),
                  !.equityTimestamps_ = Append(@, timestamp),
                  !.peakEquity_ = peak,
                  !.maxDrawdown_ = IF RLess(@, drawdown) THEN drawdown ELSE @]

\* RecordEquity stamping the sample one microsecond before the tick
RecordEquityStampsEarlier(b, timestamp) ==
    LET peak == IF b.equity_ > b.peakEquity_ THEN b.equity_ ELSE b.peakEquity_
        drawdown == Rat(peak - b.equity_, peak)
    IN  [b EXCEPT !.equityCurve_ = Append(@, b.equity_),
                  !.equityTimestamps_ = Append(@, timestamp - 1),
                  !.peakEquity_ = peak,
                  !.maxDrawdown_ = IF RLess(@, drawdown) THEN drawdown ELSE @]

\* updatePosition, lines 56-67: the equity sample, the peak and the drawdown
RecordEquity(b, timestamp) ==
    LET peak == IF b.equity_ > b.peakEquity_ THEN b.equity_ ELSE b.peakEquity_
        drawdown == Rat(peak - b.equity_, peak)
    IN  [b EXCEPT !.equityCurve_ = Append(@, b.equity_),
                  !.equityTimestamps_ = Append(@, timestamp),
                  !.peakEquity_ = peak,
                  !.maxDrawdown_ = IF RLess(@, drawdown) THEN drawdown ELSE @]

\* OpenPosition without the entry commission
OpenPositionChargesNothing(b, price, timestamp, signal) ==
    IF signal # "FLAT"
    THEN [b EXCEPT !.currentPosition_ = signal,
                   !.entryPrice_ = getFillPrice(b, price, signal),
                   !.entryTime_ = timestamp]
    ELSE b

\* OpenPosition leaving entryTime_ as it was
OpenPositionKeepsEntryTime(b, price, timestamp, signal) ==
    IF signal # "FLAT"
    THEN [b EXCEPT !.currentPosition_ = signal,
                   !.entryPrice_ = getFillPrice(b, price, signal),
                   !.equity_ = @ - b.commission_]
    ELSE b

\* updatePosition, lines 46-54: open the new position
OpenPosition(b, price, timestamp, signal) ==
    IF signal # "FLAT"
    THEN [b EXCEPT !.currentPosition_ = signal,
                   !.entryPrice_ = getFillPrice(b, price, signal),
                   !.entryTime_ = timestamp,
                   !.equity_ = @ - b.commission_]
    ELSE b

\* updatePosition keeping a LONG position when the signal goes FLAT
updatePositionHoldsLong(b, price, timestamp, signal) ==
    IF signal = b.currentPosition_ THEN b
    ELSE IF signal = "FLAT" /\ b.currentPosition_ = "LONG" THEN b
    ELSE LET closed == IF b.currentPosition_ # "FLAT"
                       THEN closePosition(b, price, timestamp) ELSE b
         IN  RecordEquity(OpenPosition(closed, price, timestamp, signal), timestamp)

\* updatePosition(price, timestamp, signal)
updatePosition(b, price, timestamp, signal) ==
    IF signal = b.currentPosition_ THEN b
    ELSE LET closed == IF b.currentPosition_ # "FLAT"
                       THEN closePosition(b, price, timestamp) ELSE b
         IN  RecordEquity(OpenPosition(closed, price, timestamp, signal), timestamp)

\* the trades with pnl > 0.0
WinningTrades(trades) == Cardinality({i \in 1 .. Len(trades) : trades[i].pnl > 0})

\* the sum of the trades' durations
RECURSIVE TotalDuration(_)
TotalDuration(trades) ==
    IF trades = <<>> THEN 0
    ELSE trades[1].duration + TotalDuration(Tail(trades))

\* calculateMetrics, lines 117-122 and 180-185
TicksPerSecond(startTime, endTime, tickCount) ==
    IF endTime > startTime
    THEN RDiv(<<tickCount, 1>>, Rat(endTime - startTime, MicrosPerSecond))
    ELSE Zero

\* calculateMetrics(startTime, endTime, tickCount), without the volatility and
\* the Sharpe ratio (square roots)
calculateMetrics(b, startTime, endTime, tickCount) ==
    IF b.trades_ = <<>>
    THEN [totalTicks |-> tickCount, totalReturn |-> Zero,
          maxDrawdown |-> b.maxDrawdown_, winRate |-> Zero,
          avgTradeLength |-> Zero, totalTrades |-> 0, winningTrades |-> 0,
          ticksPerSecond |-> TicksPerSecond(startTime, endTime, tickCount)]
    ELSE [totalTicks |-> tickCount,
          totalReturn |-> Rat(b.equity_ - StartingCapital, StartingCapital),
          maxDrawdown |-> b.maxDrawdown_,
          winRate |-> Rat(WinningTrades(b.trades_), Len(b.trades_)),
          avgTradeLength |-> Rat(TotalDuration(b.trades_),
                                 Len(b.trades_) * MicrosPerSecond),
          totalTrades |-> Len(b.trades_),
          winningTrades |-> WinningTrades(b.trades_),
          ticksPerSecond |-> TicksPerSecond(startTime, endTime, tickCount)]

(***************************************************************************)
(* Backtester::run over a tick stream.  The reader is a source of ticks    *)
(* with non-decreasing timestamps whose bid and ask are multiples of       *)
(* PriceUnit ticks.  The statistics see the mid in units of PriceUnit:     *)
(* zscore, the one value run reads from them, does not depend on the unit. *)
(***************************************************************************)
\* ticks run reads before the stream ends
MaxTicks == 5
\* the quotes of the stream are multiples of this many ticks (1250 points)
PriceUnit == 5000
\* the gap between the timestamps of two successive ticks, and the first timestamp
TimeSteps == {0, 1}
\* thresholds run is called with
RunThresholds == {<<1, 2>>}

\* Tick::mid()
mid(tick) == (tick.bid + tick.ask) \div 2

\* the ticks the reader can deliver after a tick with timestamp `after`
NextTicks(after) ==
    {[timestamp |-> after + dt, bid |-> p * PriceUnit, ask |-> p * PriceUnit] :
        dt \in TimeSteps, p \in Prices}

NoTick == [timestamp |-> 0, bid |-> 0, ask |-> 0]
NoMetrics == [totalTicks |-> 0]

\* run before its first step.  Beside run's locals rn counts what the loop has
\* done: positions opened, ticks on which a position went to FLAT, and the
\* Backtester as the loop left it (atEnd)
NewRun ==
    [pc |-> "idle", lastTick |-> NoTick, startTime |-> 0, endTime |-> 0,
     tickCount |-> 0, metrics |-> NoMetrics, opens |-> 0, toFlat |-> 0,
     atEnd |-> NewBacktester]

\* main, lines 33-66: the logger has opened artemis.log, the arguments are
\* read and the Backtester is constructed; no run call made yet.  `before` is
\* the Backtester as it was when run was last called
NewDriver ==
    [pc |-> "run", calls |-> 0, before |-> NewBacktester, exitCode |-> -1,
     log |-> {"artemis.log"}, outputs |-> {}]

BacktesterInit ==
    /\ bt = NewBacktester
    /\ rn = NewRun
    /\ drv = NewDriver

\* ResetForRun leaving equity_ and peakEquity_ as the earlier run left them
ResetForRunKeepsEquity(b) ==
    [b EXCEPT !.trades_ = <<>>,
              !.equityCurve_ = <<b.equity_>>,
              !.equityTimestamps_ = <<0>>,
              !.maxDrawdown_ = Zero,
              !.currentPosition_ = "FLAT"]

\* run, lines 199-208: the logs cleared, the capital restored
ResetForRun(b) ==
    [b EXCEPT !.trades_ = <<>>,
              !.equityCurve_ = <<StartingCapital>>,
              !.equityTimestamps_ = <<0>>,
              !.equity_ = StartingCapital,
              !.peakEquity_ = StartingCapital,
              !.maxDrawdown_ = Zero,
              !.currentPosition_ = "FLAT"]

\* run, lines 191-214: the reader is valid; fresh statistics and generator, the
\* logs cleared, the capital restored
RunStart ==
    /\ rn.pc = "idle"
    /\ \E threshold \in RunThresholds : gen' = NewSignalGenerator(threshold)
    /\ stats' = NewStats(WindowSize)
    /\ drv.pc = "run"
    /\ bt' = ResetForRun(bt)
    /\ rn' = [NewRun EXCEPT !.pc = "loop"]
    /\ drv' = [drv EXCEPT !.calls = @ + 1, !.before = bt]
    /\ UNCHANGED <<lastCall, sigTrace>>
    /\ UNCHANGED <<qvars, sqvars, rvars, tvars, mvars, cvars>>

\* run, lines 216-229: reader.next(tick) delivers a tick; the loop body
RunTick ==
    /\ rn.pc = "loop"
    /\ rn.tickCount < MaxTicks
    /\ \E tick \in NextTicks(rn.endTime) :
         LET midPrice == mid(tick)
             stats1 == update(stats, Rat(midPrice, PriceUnit))
             r == generate(gen, Rat(midPrice, PriceUnit), stats1)
             after == updatePosition(bt, midPrice, tick.timestamp, r.ret)
             was == bt.currentPosition_
             now == after.currentPosition_
         IN  /\ stats' = stats1
             /\ gen' = r.gen
             /\ bt' = after
             /\ rn' = [rn EXCEPT !.startTime = IF @ = 0 THEN tick.timestamp ELSE @,
                                 !.endTime = tick.timestamp,
                                 !.tickCount = @ + 1,
                                 !.lastTick = tick,
                                 !.opens = IF now # "FLAT" /\ now # was THEN @ + 1 ELSE @,
                                 !.toFlat = IF was # "FLAT" /\ now = "FLAT"
                                            THEN @ + 1 ELSE @]
    /\ UNCHANGED <<lastCall, sigTrace, drv>>
    /\ UNCHANGED <<qvars, sqvars, rvars, tvars, mvars, cvars>>

\* ForceClose closing a LONG position only
ForceCloseOnlyLong(b, lastTick, tickCount) ==
    IF b.currentPosition_ = "LONG" /\ tickCount > 0
    THEN closePosition(b, mid(lastTick), lastTick.timestamp)
    ELSE b

\* ForceClose leaving the position open
ForceCloseSkipped(b, lastTick, tickCount) == b

\* run, lines 231-234: close any open position at the end
ForceClose(b, lastTick, tickCount) ==
    IF b.currentPosition_ # "FLAT" /\ tickCount > 0
    THEN closePosition(b, mid(lastTick), lastTick.timestamp)
    ELSE b

\* run, lines 216 and 231-236: reader.next(tick) returns false; the open
\* position is closed at the last tick and the metrics are computed
RunEnd ==
    /\ rn.pc = "loop"
    /\ LET closed == ForceClose(bt, rn.lastTick, rn.tickCount)
       IN  /\ bt' = closed
           /\ rn' = [rn EXCEPT !.pc = "done",
                               !.atEnd = bt,
                               !.metrics = calculateMetrics(closed, rn.startTime,
                                                            rn.endTime, rn.tickCount)]
    /\ UNCHANGED <<stats, gen, lastCall, sigTrace, drv>>
    /\ UNCHANGED <<qvars, sqvars, rvars, tvars, mvars, cvars>>

\* run on a file whose reader is invalid, with the state cleared before the throw
RunOnInvalidFileClears(b) == ResetForRun(b)

\* run, lines 191-194: the reader is not valid and run throws
\* std::runtime_error, before any member is assigned
RunOnInvalidFile(b) == b

\* run called, for the first time or again after an earlier run has returned,
\* with a data file that cannot be opened or mapped
RunFails ==
    /\ drv.pc = "run"
    /\ rn.pc \in {"idle", "done"}
    /\ \E file \in UnmappableFiles \cup {MissingFile} :
         ~isValid(MarketDataReader(file))
    /\ bt' = RunOnInvalidFile(bt)
    /\ rn' = [rn EXCEPT !.pc = "failed"]
    /\ drv' = [drv EXCEPT !.calls = @ + 1, !.before = bt]
    /\ UNCHANGED <<stats, gen, lastCall, sigTrace>>
    /\ UNCHANGED <<qvars, sqvars, rvars, tvars, mvars, cvars>>

\* writeResults(filename), part_003 lines 239-262: the equity curve and the
\* trades are written to two files
writeResults(outputs) == outputs \cup {"results.csv", "results_trades.csv"}

\* main, lines 69-104, after its one call of run: run has returned, the
\* results are written and main returns 0; or run has thrown, the handler
\* logs the error and main returns 1
MainReturn ==
    /\ drv.pc = "run"
    /\ drv.calls = 1
    /\ rn.pc \in {"done", "failed"}
    /\ drv' = IF rn.pc = "done"
              THEN [drv EXCEPT !.pc = "exited", !.exitCode = 0,
                               !.outputs = writeResults(@)]
              ELSE [drv EXCEPT !.pc = "exited", !.exitCode = 1]
    /\ UNCHANGED <<bt, rn>>
    /\ UNCHANGED <<stats, gen, lastCall, sigTrace>>
    /\ UNCHANGED <<qvars, sqvars, rvars, tvars, mvars, cvars>>

RunNext ==
    \/ RunStart
    \/ RunTick
    \/ RunEnd
    \/ RunFails
    \/ MainReturn

(***************************************************************************)
(* Backtester::run as one call over a whole data file, made again on the   *)
(* same object, and the position-keeping members called one by one.        *)
(***************************************************************************)
\* ticks in the data file
MaxStream == 4
\* calls of run on one Backtester
MaxRuns == 2
\* positions opened and closed by calls of updatePosition and closePosition
MaxTrips == 2

\* the timestamp of tick i of a file whose ticks are dts[1], dts[2], ... apart
RECURSIVE TimeAt(_, _)
TimeAt(dts, i) == IF i = 0 THEN 0 ELSE dts[i] + TimeAt(dts, i - 1)

\* the ticks the reader delivers from the file with these time steps and quotes
Stream(dts, ps) ==
    [i \in DOMAIN ps |->
        [timestamp |-> TimeAt(dts, i), bid |-> ps[i] * PriceUnit,
         ask |-> ps[i] * PriceUnit]]

\* run, lines 217-228: the loop body after stats.update(midPrice) has left the
\* statistics as stats1 and generate has returned r
LoopBodyWith(st, tick, stats1, r) ==
    [bt |-> updatePosition(st.bt, mid(tick), tick.timestamp, r.ret),
     stats |-> stats1,
     gen |-> r.gen,
     startTime |-> IF st.startTime = 0 THEN tick.timestamp ELSE st.startTime,
     endTime |-> tick.timestamp,
     tickCount |-> st.tickCount + 1,
     lastTick |-> tick]

\* run, lines 225-226: signalGen.generate(midPrice, stats) on the updated statistics
LoopBodyFrom(st, tick, stats1) ==
    LoopBodyWith(st, tick, stats1, generate(st.gen, Rat(mid(tick), PriceUnit), stats1))

\* run, lines 216-229: one iteration of the loop on run's locals and the object
LoopBody(st, tick) ==
    LoopBodyFrom(st, tick, update(st.stats, Rat(mid(tick), PriceUnit)))

\* run, line 216: while (reader.next(tick)) over the ticks of the file
RECURSIVE Loop(_, _)
Loop(st, ticks) ==
    IF ticks = <<>> THEN st
    ELSE Loop(LoopBody(st, Head(ticks)), Tail(ticks))

\* run, line 236: return calculateMetrics(startTime, endTime, tickCount), with
\* the object as the force-close left it
RunReturn(closed, st) ==
    [bt |-> closed,
     startTime |-> st.startTime,
     endTime |-> st.endTime,
     tickCount |-> st.tickCount,
     metrics |-> calculateMetrics(closed, st.startTime, st.endTime, st.tickCount)]

\* run, lines 231-236, on the locals and the object as the loop left them
RunFinish(st) == RunReturn(ForceClose(st.bt, st.lastTick, st.tickCount), st)

\* run(dataFile, threshold) on Backtester b with a readable file of these
\* ticks: the object it leaves and the arguments and result of calculateMetrics
run(b, ticks, threshold) ==
    RunFinish(Loop([bt |-> ResetForRun(b),
                    stats |-> NewStats(WindowSize),
                    gen |-> NewSignalGenerator(threshold),
                    startTime |-> 0, endTime |-> 0, tickCount |-> 0,
                    lastTick |-> NoTick],
                   ticks))

\* no file chosen, no call made
CallsIdle ==
    /\ feed = <<>>
    /\ runs = <<>>
    /\ fill = <<>>

\* a caller invokes run on the data file, for the first time or again
RunCall ==
    /\ Len(runs) < MaxRuns
    /\ \E threshold \in RunThresholds :
           /\ runs' = Append(runs, run(bt, feed, threshold))
           /\ bt' = runs'[Len(runs')].bt
    /\ UNCHANGED <<rn, drv, feed, fill>>
    /\ UNCHANGED <<qvars, svars, sqvars, rvars, tvars, mvars>>

\* updatePosition(price, timestamp, signal) with LONG or SHORT on a flat
\* Backtester, at the next timestamp
FillOpen ==
    /\ bt.currentPosition_ = "FLAT"
    /\ Len(fill) < 2 * MaxTrips
    /\ \E p \in Prices, signal \in {"LONG", "SHORT"} :
         LET after == updatePosition(bt, p * PriceUnit, Len(fill) + 1, signal) IN
           /\ bt' = after
           /\ fill' = Append(fill, [op |-> "open", mid |-> p * PriceUnit,
                                    before |-> bt, after |-> after])
    /\ UNCHANGED <<rn, drv, feed, runs>>
    /\ UNCHANGED <<qvars, svars, sqvars, rvars, tvars, mvars>>

\* the open position is closed: updatePosition(price, timestamp, FLAT) as in
\* the loop, or closePosition(price, timestamp) as at the end of the stream
FillClose ==
    /\ bt.currentPosition_ # "FLAT"
    /\ \E p \in Prices, inLoop \in BOOLEAN :
         LET after == IF inLoop
                      THEN updatePosition(bt, p * PriceUnit, Len(fill) + 1, "FLAT")
                      ELSE closePosition(bt, p * PriceUnit, Len(fill) + 1) IN
           /\ bt' = after
           /\ fill' = Append(fill, [op |-> "close", mid |-> p * PriceUnit,
                                    before |-> bt, after |-> after])
    /\ UNCHANGED <<rn, drv, feed, runs>>
    /\ UNCHANGED <<qvars, svars, sqvars, rvars, tvars, mvars>>

FillNext ==
    \/ FillOpen
    \/ FillClose

\* no reader in use: the file that cannot be opened
ReaderIdle == ReaderInit(MissingFile)

(***************************************************************************)
(* A RollingStatistics object fed with samples, in real-number arithmetic  *)
(* and in floating-point arithmetic with a significand of FloatBits bits,  *)
(* and the generator of the state-machine test driven from it.             *)
(***************************************************************************)
\* window sizes 1 .. MaxWindow
MaxWindow == 2
\* samples fed to one object
MaxFed == 4
\* the significand width that stands for a double's 53 bits
FloatBits == 3
\* the sample values; each is a floating-point number of FloatBits bits
Samples == 1 .. 7

\* no object under observation
StatsIdle ==
    /\ fed = <<>>
    /\ prior = NewStats(WindowSize)

\* RollingStatistics stats(w); SignalGenerator gen(2.5)
StatsInit ==
    /\ stats \in {NewStatsIn(p, w) : p \in {0, FloatBits}, w \in 1 .. MaxWindow}
    /\ prior = stats
    /\ fed = <<>>
    /\ lastCall = NoCall
    /\ sigTrace = <<>>

\* stats.update(x), before the generator is used
StatsUpdate ==
    /\ Len(fed) < MaxFed
    /\ sigTrace = <<>>
    /\ \E x \in Samples :
         /\ stats' = update(stats, <<x, 1>>)
         /\ fed' = Append(fed, x)
    /\ prior' = stats
    /\ UNCHANGED <<gen, lastCall, sigTrace>>
    /\ UNCHANGED <<qvars, bvars, sqvars, rvars, mvars, cvars>>

\* the largest k with k * k <= n
ISqrt(n) == CHOOSE k \in 0 .. n : k * k <= n /\ (k + 1) * (k + 1) > n

\* the fraction has a square root that is a fraction
HasRoot(r) == ISqrt(r[1]) * ISqrt(r[1]) = r[1] /\ ISqrt(r[2]) * ISqrt(r[2]) = r[2]

\* stddev(): std::sqrt(variance_), for a variance that has a root
stddev(s) == <<ISqrt(s.variance_[1]), ISqrt(s.variance_[2])>>

\* StateMachine test: the prices are mean + k * stddev for these k
StateMachineOffsets == <<-3, -1, 0, 3, 0>>

\* gen.generate(mean + k * stddev, stats), in the order of the test, on ready
\* statistics whose mean, stddev and prices are computed exactly
StateMachineCall ==
    /\ isReady(stats)
    /\ stats.precision = 0
    /\ HasRoot(stats.variance_)
    /\ Len(sigTrace) < Len(StateMachineOffsets)
    /\ LET k == StateMachineOffsets[Len(sigTrace) + 1]
           price == RAdd(stats.mean_, RMul(<<k, 1>>, stddev(stats)))
           r == generate(gen, price, stats)
       IN  /\ gen' = r.gen
           /\ sigTrace' = Append(sigTrace, r.gen.currentSignal_)
    /\ UNCHANGED <<stats, lastCall, fed, prior>>
    /\ UNCHANGED <<qvars, bvars, sqvars, rvars, mvars, cvars>>

StatsNext ==
    \/ StatsUpdate
    \/ StateMachineCall

(***************************************************************************)
(* MarketDataReader objects constructed, moved into one another and        *)
(* destroyed.  An object is a reader record with the address of its        *)
(* mapping, addr (0 for nullptr); mapped is still data_ != nullptr.        *)
(***************************************************************************)
\* the variables of type MarketDataReader
Objects == {1, 2, 3}
\* mappings established in one behaviour
MaxMappings == 3

\* the file the readers are constructed on: a header and one record
MappedFile ==
    [exists |-> TRUE, mappable |-> TRUE, win32 |-> FALSE, lines |-> <<"rec1">>,
     eol |-> <<"LF">>, finalNewline |-> TRUE,
     bytes |-> FileBytes(<<"rec1">>, <<"LF">>, TRUE)]

\* a variable whose object is not constructed, or is destroyed
NoObject ==
    [alive |-> FALSE, movedFrom |-> FALSE, addr |-> 0, mapped |-> FALSE,
     data_ |-> <<>>, size_ |-> 0, position_ |-> 0]

MoveInit ==
    /\ objs = [o \in Objects |-> NoObject]
    /\ maps = <<>>

\* munmap(data_, size_) / UnmapViewOfFile(data_)
munmap(m, addr) == [m EXCEPT ![addr].mapped = FALSE, ![addr].unmaps = @ + 1]

\* the moved-from object with its mapping kept
MovedFromKeepsMapping(r) == [r EXCEPT !.movedFrom = TRUE]

\* lines 141-143 and 159-161: other.data_ = nullptr; other.size_ = 0;
\* other.position_ = 0
MovedFrom(r) ==
    [r EXCEPT !.movedFrom = TRUE, !.addr = 0, !.mapped = FALSE, !.data_ = <<>>,
              !.size_ = 0, !.position_ = 0]

\* MarketDataReader o(filepath)
MoveConstruct ==
    \E o \in Objects, file \in {MappedFile, MissingFile} :
        /\ ~objs[o].alive
        /\ Len(maps) < MaxMappings
        /\ LET r == MarketDataReader(file)
               addr == IF r.mapped THEN Len(maps) + 1 ELSE 0
           IN  /\ objs' = [objs EXCEPT ![o] =
                             [alive |-> TRUE, movedFrom |-> FALSE, addr |-> addr,
                              mapped |-> r.mapped, data_ |-> r.data_,
                              size_ |-> r.size_, position_ |-> r.position_]]
               /\ maps' = IF r.mapped
                          THEN Append(maps, [mapped |-> TRUE, unmaps |-> 0])
                          ELSE maps
    /\ UNCHANGED <<qvars, svars, bvars, sqvars, rvars, tvars, cvars>>

\* reader.next(tick) on an object that holds a mapping: the cursor moves
MoveNext ==
    \E o \in Objects :
        /\ objs[o].alive
        /\ next(objs[o], BlankTick).ret = "true"
        /\ objs' = [objs EXCEPT ![o] = next(objs[o], BlankTick).r]
        /\ UNCHANGED maps
    /\ UNCHANGED <<qvars, svars, bvars, sqvars, rvars, tvars, cvars>>

\* MarketDataReader o(std::move(other)), lines 139-144
MoveConstructFrom ==
    \E o \in Objects, other \in Objects :
        /\ ~objs[o].alive
        /\ objs[other].alive
        /\ objs' = [objs EXCEPT ![o] = [objs[other] EXCEPT !.movedFrom = FALSE],
                                ![other] = MovedFrom(objs[other])]
        /\ UNCHANGED maps
    /\ UNCHANGED <<qvars, svars, bvars, sqvars, rvars, tvars, cvars>>

\* o = std::move(other), lines 146-164; o and other may be the same object
MoveAssign ==
    \E o \in Objects, other \in Objects :
        /\ objs[o].alive
        /\ objs[other].alive
        /\ IF o # other
           THEN /\ maps' = IF objs[o].mapped THEN munmap(maps, objs[o].addr) ELSE maps
                /\ objs' = [objs EXCEPT ![o] = [objs[other] EXCEPT !.movedFrom = FALSE],
                                        ![other] = MovedFrom(objs[other])]
           ELSE UNCHANGED <<objs, maps>>
    /\ UNCHANGED <<qvars, svars, bvars, sqvars, rvars, tvars, cvars>>

\* ~MarketDataReader(), lines 129-137
MoveDestroy ==
    \E o \in Objects :
        /\ objs[o].alive
        /\ maps' = IF objs[o].mapped THEN munmap(maps, objs[o].addr) ELSE maps
        /\ objs' = [objs EXCEPT ![o] = NoObject]
    /\ UNCHANGED <<qvars, svars, bvars, sqvars, rvars, tvars, cvars>>

MoveStep ==
    \/ MoveConstruct
    \/ MoveNext
    \/ MoveConstructFrom
    \/ MoveAssign
    \/ MoveDestroy

(***************************************************************************)
(* Specifications                                                          *)
(***************************************************************************)
\* SignalGenerator's default threshold 2.5
DefaultThreshold == <<5, 2>>

\* one producer thread and the consumer thread on one ring
InitSPSC ==
    /\ producers = {1}
    /\ gen = NewSignalGenerator(DefaultThreshold)
    /\ QueueInit /\ SignalInit /\ BacktesterInit /\ SeqInit /\ ReaderIdle
    /\ StatsIdle /\ MoveInit /\ CallsIdle

SpecSPSC == InitSPSC /\ [][QueueNext]_vars

\* several producer threads and the consumer thread on one ring
InitMPSC ==
    /\ producers = ProducerIds
    /\ gen = NewSignalGenerator(DefaultThreshold)
    /\ QueueInit /\ SignalInit /\ BacktesterInit /\ SeqInit /\ ReaderIdle
    /\ StatsIdle /\ MoveInit /\ CallsIdle

SpecMPSC == InitMPSC /\ [][QueueNext]_vars

\* a signal generator driven with any prices and any statistics
InitSignal ==
    /\ producers = {1}
    /\ gen \in {NewSignalGenerator(t) : t \in Thresholds}
    /\ QueueInit /\ SignalInit /\ BacktesterInit /\ SeqInit /\ ReaderIdle
    /\ StatsIdle /\ MoveInit /\ CallsIdle

SpecSignal == InitSignal /\ [][SignalNext]_vars

\* one call of Backtester::run
InitRun ==
    /\ producers = {1}
    /\ gen = NewSignalGenerator(DefaultThreshold)
    /\ QueueInit /\ SignalInit /\ BacktesterInit /\ SeqInit /\ ReaderIdle
    /\ StatsIdle /\ MoveInit /\ CallsIdle

SpecRun == InitRun /\ [][RunNext]_vars

\* a queue constructed and used by one thread
InitSeq ==
    /\ producers = {1}
    /\ gen = NewSignalGenerator(DefaultThreshold)
    /\ QueueInit /\ SignalInit /\ BacktesterInit /\ SeqInit /\ ReaderIdle
    /\ StatsIdle /\ MoveInit /\ CallsIdle

SpecSeq == InitSeq /\ [][SeqNext]_vars

\* a reader constructed on any of the files and iterated
InitReader ==
    /\ producers = {1}
    /\ gen = NewSignalGenerator(DefaultThreshold)
    /\ QueueInit /\ SignalInit /\ BacktesterInit /\ SeqInit
    /\ StatsIdle /\ MoveInit /\ CallsIdle
    /\ \E file \in Files : ReaderInit(file)

SpecReader == InitReader /\ [][ReaderStep]_vars

\* a statistics object of any window size fed with any samples
InitStats ==
    /\ producers = {1}
    /\ gen = NewSignalGenerator(DefaultThreshold)
    /\ QueueInit /\ BacktesterInit /\ SeqInit /\ ReaderIdle
    /\ StatsInit /\ MoveInit /\ CallsIdle

SpecStats == InitStats /\ [][StatsNext]_vars

\* reader objects constructed, moved and destroyed
InitMove ==
    /\ producers = {1}
    /\ gen = NewSignalGenerator(DefaultThreshold)
    /\ QueueInit /\ SignalInit /\ BacktesterInit /\ SeqInit /\ ReaderIdle
    /\ StatsIdle /\ MoveInit /\ CallsIdle

SpecMove == InitMove /\ [][MoveStep]_vars

\* run called up to MaxRuns times on one Backtester with one readable file
InitRerun ==
    /\ producers = {1}
    /\ gen = NewSignalGenerator(DefaultThreshold)
    /\ QueueInit /\ SignalInit /\ BacktesterInit /\ SeqInit /\ ReaderIdle
    /\ StatsIdle /\ MoveInit
    /\ \E n \in 0 .. MaxStream :
         \E dts \in [1 .. n -> TimeSteps], ps \in [1 .. n -> Prices] :
            feed = Stream(dts, ps)
    /\ runs = <<>>
    /\ fill = <<>>

SpecRerun == InitRerun /\ [][RunCall]_vars

\* positions opened and closed on one Backtester at any mids
InitFill ==
    /\ producers = {1}
    /\ gen = NewSignalGenerator(DefaultThreshold)
    /\ QueueInit /\ SignalInit /\ BacktesterInit /\ SeqInit /\ ReaderIdle
    /\ StatsIdle /\ MoveInit /\ CallsIdle

SpecFill == InitFill /\ [][FillNext]_vars

(***************************************************************************)
(* Claims about LockFreeQueue                                              *)
(***************************************************************************)
\* the elements of a sequence
Range(s) == {s[i] : i \in 1 .. Len(s)}

\* how many times x occurs in s
Occurrences(x, s) == Cardinality({i \in 1 .. Len(s) : s[i] = x})

\* s is an initial segment of t
IsPrefix(s, t) == Len(s) <= Len(t) /\ \A i \in 1 .. Len(s) : s[i] = t[i]

\* every item handed out so far, by tryPop calls and then by the drain loop
HandedOut == popped \o drained

\* C1: once the destructor has run, the number of tryPush calls that returned
\* true equals the number of tryPop calls that returned true plus the number of
\* items the drain loop popped, and no slot still holds an item.
C1_PushesEqualPopsPlusDrained ==
    ~alive =>
        /\ Len(pushed) = Len(popped) + Len(drained)
        /\ \A i \in DOMAIN buffer_ : buffer_[i] = NULL

\* C2: with one producer and one consumer, the items returned by successful
\* tryPop calls are, in order, an initial segment of the items accepted by
\* successful tryPush calls.
C2_PopsArePrefixOfPushes == IsPrefix(popped, pushed)

\* C2 witness: the consumer has taken the first two of three accepted items
\* and the third is still in the ring.
C2_Witness ==
    /\ producers = {1}
    /\ Len(popped) = 2
    /\ Len(pushed) = 3
    /\ buffer_[2] # NULL
    /\ head_ = 2

\* C3: an item is never handed out twice, an item whose tryPush returned false
\* is never handed out, and once the destructor has run every item whose
\* tryPush returned true has been handed out exactly once.
C3_EachPushedItemHandedOutOnce ==
    /\ \A x \in Range(HandedOut) : Occurrences(x, HandedOut) = 1
    /\ \A x \in refused : x \notin Range(HandedOut)
    /\ ~alive => \A x \in Range(pushed) : Occurrences(x, HandedOut) = 1

(***************************************************************************)
(* Claims about SignalGenerator                                            *)
(***************************************************************************)
\* z = c for a zscore z and a fraction c
ZEqual(z, c) == ~ZLess(z, c) /\ ~ZGreater(z, c)

\* C4: a generate call with ready statistics and a positive threshold follows
\* the transition table on z = zscore(price): FLAT goes to LONG iff z < -threshold,
\* to SHORT iff z > threshold and stays FLAT otherwise; LONG goes to FLAT iff
\* z >= 0 and stays LONG otherwise; SHORT goes to FLAT iff z <= 0 and stays SHORT
\* otherwise; the value returned is the new state.
C4_TransitionTable ==
    (lastCall.made /\ lastCall.ready) =>
        LET z == lastCall.z
            th == lastCall.before.threshold_
            from == lastCall.before.currentSignal_
            to == gen.currentSignal_
        IN  /\ from = "FLAT" =>
                 /\ (to = "LONG") <=> ZLess(z, RNeg(th))
                 /\ (to = "SHORT") <=> ZGreater(z, th)
                 /\ (to = "FLAT") <=> (~ZLess(z, RNeg(th)) /\ ~ZGreater(z, th))
            /\ from = "LONG" =>
                 /\ (to = "FLAT") <=> (ZGreater(z, Zero) \/ ZEqual(z, Zero))
                 /\ (to = "LONG") <=> ZLess(z, Zero)
            /\ from = "SHORT" =>
                 /\ (to = "FLAT") <=> (ZLess(z, Zero) \/ ZEqual(z, Zero))
                 /\ (to = "SHORT") <=> ZGreater(z, Zero)
            /\ lastCall.ret = to

\* C4 witness: a call from FLAT with z exactly -threshold, which stays FLAT
C4_Witness ==
    /\ lastCall.made /\ lastCall.ready
    /\ lastCall.before.currentSignal_ = "FLAT"
    /\ lastCall.z.num[1] < 0
    /\ ZEqual(lastCall.z, RNeg(lastCall.before.threshold_))
    /\ gen.currentSignal_ = "FLAT"

\* C5: over any sequence of generate calls the generator state never goes from
\* LONG to SHORT or from SHORT to LONG in one call: each call leaves the state
\* alone or makes one transition between FLAT and a position.
C5_NoDirectReversal ==
    \A i \in 1 .. Len(sigTrace) - 1 :
        /\ ~(sigTrace[i] = "LONG" /\ sigTrace[i + 1] = "SHORT")
        /\ ~(sigTrace[i] = "SHORT" /\ sigTrace[i + 1] = "LONG")

\* C5 witness: the generator was LONG, a call ended in FLAT, and it is now SHORT
C5_Witness == sigTrace = <<"LONG", "FLAT", "SHORT">>

\* C6: a generate call with statistics that are not ready returns FLAT and
\* leaves the generator, its current signal and its threshold, as it was.
C6_NotReadyReturnsFlatKeepsState ==
    (lastCall.made /\ ~lastCall.ready) =>
        /\ lastCall.ret = "FLAT"
        /\ gen = lastCall.before

\* C6 witness: such a call on a generator that is LONG
C6_Witness ==
    /\ lastCall.made /\ ~lastCall.ready
    /\ lastCall.before.currentSignal_ = "LONG"
    /\ lastCall.ret = "FLAT"

(***************************************************************************)
(* Claims about Backtester                                                 *)
(***************************************************************************)
\* C7: peak_equity >= equity at all times during and after run, after the
\* end-of-stream force-close too.
C7_PeakAtLeastEquity == bt.peakEquity_ >= bt.equity_

\* C8 as claimed: max_drawdown stays within [0, 1] in every reachable state.
C8_DrawdownWithinUnitInterval ==
    /\ ~RLess(bt.maxDrawdown_, Zero)
    /\ ~RLess(One, bt.maxDrawdown_)

\* C8 as amended: max_drawdown is never negative, and it is at most 1 as long
\* as no equity sample recorded so far is negative.
C8_DrawdownBounds ==
    /\ ~RLess(bt.maxDrawdown_, Zero)
    /\ (\A i \in 1 .. Len(bt.equityCurve_) : bt.equityCurve_[i] >= 0)
           => ~RLess(One, bt.maxDrawdown_)

\* C8 witness: a losing trade has left a positive equity and a positive drawdown
C8_Witness ==
    /\ Len(bt.trades_) = 1
    /\ bt.trades_[1].pnl < -1000000
    /\ bt.equity_ > 0
    /\ RLess(Zero, bt.maxDrawdown_)
    /\ \A i \in 1 .. Len(bt.equityCurve_) : bt.equityCurve_[i] >= 0

\* C9 as claimed: every logged trade has entry_time < exit_time.
C9_EntryStrictlyBeforeExit ==
    \A i \in 1 .. Len(bt.trades_) : bt.trades_[i].entryTime < bt.trades_[i].exitTime

\* C9 as amended: every logged trade has entry_time <= exit_time, for every
\* stream with non-decreasing timestamps, the force-closed trade included.
C9_EntryNotAfterExit ==
    \A i \in 1 .. Len(bt.trades_) :
        /\ bt.trades_[i].entryTime <= bt.trades_[i].exitTime
        /\ bt.trades_[i].duration = bt.trades_[i].exitTime - bt.trades_[i].entryTime

\* C9 witness: run has returned with a trade that took time and a trade,
\* closed at the end of the stream, that took none
C9_Witness ==
    /\ rn.pc = "done"
    /\ Len(bt.trades_) = 2
    /\ bt.trades_[1].duration > 0
    /\ bt.trades_[2].duration = 0

\* C10: an equity sample is appended on every position transition, the
\* end-of-stream force-close included: after run returns the last sample of the
\* equity curve is the final equity, and there is one sample per timestamp.
C10_LastSampleIsFinalEquity ==
    rn.pc = "done" =>
        /\ bt.equityCurve_[Len(bt.equityCurve_)] = bt.equity_
        /\ Len(bt.equityTimestamps_) = Len(bt.equityCurve_)

\* the producer thread that made item x
ProducerOf(x) == x \div 10

\* C16: with several producers, two items pushed successfully by the same
\* producer and both popped are popped in the order that producer pushed them
C16_FifoPerProducer ==
    \A i, k \in 1 .. Len(popped) :
        (/\ i < k
         /\ ProducerOf(popped[i]) = ProducerOf(popped[k])
         /\ popped[i] \in Range(pushed)
         /\ popped[k] \in Range(pushed))
        => popped[i] < popped[k]

\* c = 2^k for some k >= 0
IsPowerOfTwo(c) == \E k \in 0 .. c : c = 2 ^ k

\* C17: constructing LockFreeQueue with capacity c succeeds exactly when c is a
\* power of two; for every other capacity it fails with invalid_argument
C17_BuiltExactlyForPowersOfTwo ==
    sq.state # "none" =>
        /\ IsPowerOfTwo(sq.capacity_) => sq.state = "built"
        /\ ~IsPowerOfTwo(sq.capacity_) => sq.state = "invalid_argument"

\* the items a ring holds
Held(q) == Cardinality({i \in DOMAIN q.buffer_ : q.buffer_[i] # NULL})

\* the calls made so far are tryPush calls with an item, at most n of them
OnlyPushesSoFar(n) ==
    /\ Len(sqHist) <= n
    /\ \A i \in 1 .. Len(sqHist) : sqHist[i].op = "tryPush" /\ sqHist[i].arg # NULL

\* C18: in sequential use of a ring of capacity C, tryPush fails and changes
\* nothing when (tail + 1) mod C = head, at most C - 1 items are held, the first
\* C - 1 pushes into an empty ring all succeed, tryPop fails and leaves the ring
\* and its argument alone when head = tail, and tryPush(nullptr) fails and
\* changes nothing
C18_SequentialFullEmptyNull ==
    (sq.state = "built" /\ sq.capacity_ >= 1) =>
        /\ Held(sq) <= sq.capacity_ - 1
        /\ OnlyPushesSoFar(sq.capacity_ - 1) =>
               \A i \in 1 .. Len(sqHist) : sqHist[i].ret
        /\ sqHist # <<>> =>
               LET call == sqHist[Len(sqHist)]
                   was == sqPrev.q
               IN  /\ (call.op = "tryPush" /\ (was.tail_ + 1) % was.capacity_ = was.head_)
                        => (~call.ret /\ sq = was)
                   /\ (call.op = "tryPush" /\ call.arg = NULL)
                        => (~call.ret /\ sq = was)
                   /\ (call.op = "tryPop" /\ was.head_ = was.tail_)
                        => (~call.ret /\ sq = was /\ sqItem = sqPrev.item)

(***************************************************************************)
(* Claims about MarketDataReader                                           *)
(***************************************************************************)
\* the tick a record line stands for
RecordTick(kind) ==
    IF kind = "rec1" THEN [timestamp |-> 1, bid |-> 2, ask |-> 2, volume |-> 5]
    ELSE [timestamp |-> 2, bid |-> 4, ask |-> 6, volume |-> 10]

\* the ticks of the valid records among the lines, in file order
RECURSIVE ValidTicks(_)
ValidTicks(lines) ==
    IF lines = <<>> THEN <<>>
    ELSE (IF Head(lines) \in {"rec1", "rec2"} THEN <<RecordTick(Head(lines))>> ELSE <<>>)
         \o ValidTicks(Tail(lines))

\* the ticks the current pass has delivered
DeliveredTicks == [i \in 1 .. Len(rdPass.delivered) |-> rdPass.delivered[i].tick]

\* the file holds records and lines of the given kinds only, at least one of the latter
RecordsAnd(kinds) ==
    /\ rdFile.exists
    /\ \A i \in 1 .. Len(rdFile.lines) : rdFile.lines[i] \in {"rec1", "rec2"} \cup kinds
    /\ \E i \in 1 .. Len(rdFile.lines) : rdFile.lines[i] \in kinds

\* C11: next never aborts on malformed input: on a file of k valid records
\* interleaved with lines of fewer than four fields or with a field that is not
\* a number, no call raises an exception and a pass that has reached
\* end-of-stream has delivered exactly the k ticks
C11_MalformedLinesSkipped ==
    RecordsAnd({"short", "text"}) =>
        /\ rdLast.ret # "invalid_argument"
        /\ rdPass.ended => DeliveredTicks = ValidTicks(rdFile.lines)

\* C12: a blank line, ended by LF or by CRLF, anywhere after the header is
\* skipped: a pass that has reached end-of-stream has delivered every valid
\* record, those after the blank line too
C12_BlankLinesSkipped ==
    (RecordsAnd({"blank"}) /\ rdPass.ended) => DeliveredTicks = ValidTicks(rdFile.lines)

\* the ticks a full iteration delivers, from reader r on
RECURSIVE FullIteration(_, _)
FullIteration(r, tick) ==
    LET n == next(r, tick) IN
      IF n.ret = "true" THEN <<n.tick>> \o FullIteration(n.r, n.tick) ELSE <<>>

\* C13: after any number of next calls, reset followed by a full iteration
\* delivers the ticks of a full iteration from construction, and reset leaves
\* the mapping alone
C13_ResetReplaysFirstPass ==
    /\ rd.data_ = MarketDataReader(rdFile).data_
    /\ rd.size_ = MarketDataReader(rdFile).size_
    /\ (rdPass.resets > 0 /\ rdPass.ended)
         => DeliveredTicks = FullIteration(MarketDataReader(rdFile), BlankTick)

\* two records read, the end reached, reset, and the second pass run to its end
C13_Witness ==
    /\ rdPass.resets = 1
    /\ rdPass.ended
    /\ rdPass.nextCalls = 6
    /\ Len(rdPass.delivered) = 2
    /\ DeliveredTicks[1] # DeliveredTicks[2]

\* C14: within one pass the successful next calls return records from strictly
\* increasing file offsets, so no record is delivered twice
C14_OffsetsStrictlyIncrease ==
    \A i, j \in 1 .. Len(rdPass.delivered) :
        i < j => rdPass.delivered[i].offset < rdPass.delivered[j].offset

\* two records delivered around a skipped line
C14_Witness ==
    /\ rdFile.lines = <<"rec1", "short", "rec2">>
    /\ Len(rdPass.delivered) = 2
    /\ rdPass.resets = 0

\* C15: once next has returned false, every later next call of the pass
\* returns false, until reset
C15_EndOfStreamIsTerminal ==
    (rdLast.op = "next" /\ rdLast.endedBefore) => rdLast.ret = "false"

\* a next call after the end of a pass that had delivered a record
C15_Witness ==
    /\ rdLast.op = "next"
    /\ rdLast.endedBefore
    /\ rdLast.ret = "false"
    /\ Len(rdPass.delivered) >= 1

(***************************************************************************)
(* Claims about the trade log of Backtester::run                           *)
(***************************************************************************)
\* a position was open when the stream ended
OpenAtEnd == rn.atEnd.currentPosition_ # "FLAT"

\* C19: the trade log holds one trade per tick on which the position went from
\* LONG or SHORT to FLAT, plus one exactly when a position was still open at
\* the end of the stream; nothing else logs a trade
C19_TradesCountTransitions ==
    /\ rn.pc = "loop" => Len(bt.trades_) = rn.toFlat
    /\ rn.pc = "done" => Len(bt.trades_) = rn.toFlat + (IF OpenAtEnd THEN 1 ELSE 0)

\* a run with a trade closed by a tick and a trade closed by the end of the stream
C19_Witness ==
    /\ rn.pc = "done"
    /\ rn.toFlat >= 1
    /\ OpenAtEnd
    /\ Len(bt.trades_) = 2

\* C20: a position open at the end of the stream is closed at the last tick's
\* mid and timestamp, by the rules of a close made by a tick (the trade and the
\* equity are those a FLAT signal on the last tick would give); after run the
\* position is FLAT and every opened position has exactly one trade
C20_ForceCloseLikeNormalClose ==
    rn.pc = "done" =>
        /\ bt.currentPosition_ = "FLAT"
        /\ Len(bt.trades_) = rn.opens
        /\ OpenAtEnd =>
             LET byTick == updatePosition(rn.atEnd, mid(rn.lastTick),
                                          rn.lastTick.timestamp, "FLAT")
             IN  /\ bt.trades_ = byTick.trades_
                 /\ bt.equity_ = byTick.equity_
                 /\ bt.trades_[Len(bt.trades_)].exitTime = rn.lastTick.timestamp

\* a SHORT position opened on an earlier tick and closed by the end of the stream
C20_Witness ==
    /\ rn.pc = "done"
    /\ OpenAtEnd
    /\ rn.atEnd.currentPosition_ = "SHORT"
    /\ rn.atEnd.entryTime_ < rn.lastTick.timestamp
    /\ Len(bt.trades_) = rn.opens

(***************************************************************************)
(* Claims about the order of the trade log and of the equity curve         *)
(***************************************************************************)
\* C21: for a tick stream with non-decreasing timestamps the trade log is
\* ordered and positions do not overlap: a trade is closed no later than the
\* next one is opened, so exit times and entry times are both non-decreasing
\* along the log
C21_TradesDoNotOverlap ==
    \A i \in 1 .. Len(bt.trades_) - 1 :
        /\ bt.trades_[i].exitTime <= bt.trades_[i + 1].entryTime
        /\ bt.trades_[i].exitTime <= bt.trades_[i + 1].exitTime
        /\ bt.trades_[i].entryTime <= bt.trades_[i + 1].entryTime

\* a finished run that logged two trades, the second opened after timestamp 0
C21_Witness ==
    /\ rn.pc = "done"
    /\ Len(bt.trades_) >= 2
    /\ bt.trades_[1].exitTime > 0
    /\ bt.trades_[2].entryTime > bt.trades_[1].entryTime

\* C22 as stated: every sample appended to the equity curve during run has a
\* timestamp strictly greater than the sample before it
C22_EquityTimestampsStrictlyIncrease ==
    \A i \in 1 .. Len(bt.equityTimestamps_) - 1 :
        bt.equityTimestamps_[i] < bt.equityTimestamps_[i + 1]

\* C22, amended: for a tick stream with non-decreasing timestamps the
\* timestamps of the equity curve are non-decreasing, the initial sample
\* carrying timestamp 0; the samples are as many as the timestamps
C22_EquityTimestampsNonDecreasing ==
    /\ Len(bt.equityTimestamps_) = Len(bt.equityCurve_)
    /\ bt.equityTimestamps_[1] = 0
    /\ \A i \in 1 .. Len(bt.equityTimestamps_) - 1 :
          bt.equityTimestamps_[i] <= bt.equityTimestamps_[i + 1]

\* two position changes on ticks that share a timestamp greater than 0
C22_Witness ==
    /\ rn.pc = "loop"
    /\ \E i \in 2 .. Len(bt.equityTimestamps_) - 1 :
          /\ bt.equityTimestamps_[i] = bt.equityTimestamps_[i + 1]
          /\ bt.equityTimestamps_[i] > 0
          /\ bt.equityTimestamps_[i - 1] < bt.equityTimestamps_[i]

(***************************************************************************)
(* Claims about a reader whose file cannot be read                         *)
(***************************************************************************)
\* the file is missing, or it cannot be mapped
CannotBeMapped(file) == ~file.exists \/ ~file.mappable \/ Len(file.bytes) = 0

\* C27: a reader constructed on a missing or unmappable file is invalid from
\* construction: isValid() is false, and every next call returns false and
\* yields no tick, before and after reset
C27_InvalidFileYieldsNothing ==
    CannotBeMapped(rdFile) =>
        /\ ~isValid(rd)
        /\ rdLast.op = "next" => rdLast.ret = "false"
        /\ rdPass.delivered = <<>>
        /\ rdTick = BlankTick

\* a file that exists and holds a record but cannot be mapped: next called
\* before the reset and again after it
C27_Witness ==
    /\ rdFile.exists /\ ~rdFile.mappable /\ Len(rdFile.bytes) > 0
    /\ rdPass.resets = 1
    /\ rdPass.nextCalls >= 2
    /\ rdLast.op = "next" /\ rdLast.ret = "false" /\ ~rdLast.endedBefore

(***************************************************************************)
(* Claims about a run on a file that cannot be read                        *)
(***************************************************************************)
\* C28: when the data file cannot be opened or mapped, run throws before it
\* changes any Backtester state (trades, equity curve, equity, peak, drawdown
\* and position are as they were before the call), and main then returns
\* exit code 1 without calling writeResults: no output file is produced
C28_FailedRunChangesNothing ==
    rn.pc = "failed" =>
        /\ bt = drv.before
        /\ drv.pc = "exited" => (drv.exitCode = 1 /\ drv.outputs = {})

\* main has returned after its run call failed
C28_Witness ==
    /\ rn.pc = "failed"
    /\ drv.pc = "exited"
    /\ drv.calls = 1
    /\ drv.exitCode = 1

(***************************************************************************)
(* Claims about RollingStatistics                                          *)
(***************************************************************************)
\* C23: for every sample stream and every window size W >= 1, variance() >= 0
\* after every update, in the fill phase and in the exponentially-weighted
\* phase
C23_VarianceNonNegative ==
    /\ stats.variance_[2] > 0
    /\ stats.variance_[1] >= 0

\* an update of the exponentially-weighted phase that leaves a positive
\* variance, computed in floating point
C23_Witness ==
    /\ Len(fed) > stats.windowSize_
    /\ stats.precision > 0
    /\ stats.variance_[1] > 0
    /\ fed[Len(fed)] # fed[Len(fed) - 1]

\* C24: each update increases count by exactly one, and isReady() is true
\* if and only if at least W samples have been absorbed
C24_CountAndReadiness ==
    /\ stats.count_ = Len(fed)
    /\ fed # <<>> => stats.count_ = prior.count_ + 1
    /\ isReady(stats) <=> Len(fed) >= stats.windowSize_

\* the W-th update of an object with W >= 2: not ready before it, ready after
C24_Witness ==
    /\ stats.windowSize_ >= 2
    /\ Len(fed) = stats.windowSize_
    /\ ~isReady(prior)
    /\ isReady(stats)

\* the same value fed every time
ConstantStream == fed # <<>> /\ \A i \in 1 .. Len(fed) : fed[i] = fed[1]

\* |a - b| <= c for fractions a, b, c
Within(a, b, c) ==
    LET d == RSub(a, b)
        ad == <<Abs(d[1]), d[2]>>
    IN  ~RLess(c, ad)

RECURSIVE SumFed(_)
SumFed(k) == IF k = 0 THEN 0 ELSE fed[k] + SumFed(k - 1)

\* the arithmetic mean of the first k samples
MeanFed(k) == Rat(SumFed(k), k)

\* the sum of the squared deviations of the first j samples from m
RECURSIVE SumSqDev(_, _)
SumSqDev(j, m) ==
    IF j = 0 THEN Zero
    ELSE LET d == RSub(<<fed[j], 1>>, m) IN RAdd(RMul(d, d), SumSqDev(j - 1, m))

\* C30: in real-number arithmetic the first sample sets mean = x and
\* variance = 0; after k <= W samples mean is their arithmetic mean and
\* variance the sum of the squared deviations from it divided by k; every
\* sample after the W-th applies mean' = a * x + (1 - a) * mean and
\* variance' = max(0, (1 - a) * (variance + a * (x - mean)^2)), a = 2 / (W + 1),
\* mean being the value before the update, and leaves m2 unchanged
C30_TwoPhaseEstimator ==
    (stats.precision = 0 /\ fed # <<>>) =>
        LET k == Len(fed)
            x == <<fed[k], 1>>
            a == Rat(2, stats.windowSize_ + 1)
            dev == RSub(x, prior.mean_)
            ew == RMul(RSub(One, a), RAdd(prior.variance_, RMul(a, RMul(dev, dev))))
        IN  /\ k = 1 => (stats.mean_ = x /\ stats.variance_ = Zero)
            /\ k <= stats.windowSize_ =>
                  /\ stats.mean_ = MeanFed(k)
                  /\ stats.variance_ = RDiv(SumSqDev(k, MeanFed(k)), <<k, 1>>)
            /\ k > stats.windowSize_ =>
                  /\ stats.mean_ = RAdd(RMul(a, x), RMul(RSub(One, a), prior.mean_))
                  /\ stats.variance_ = IF RLess(ew, Zero) THEN Zero ELSE ew
                  /\ stats.m2_ = prior.m2_

\* a sample after the W-th that differs from the mean before it, W >= 2,
\* following a fill phase that left a positive variance
C30_Witness ==
    /\ stats.precision = 0
    /\ stats.windowSize_ >= 2
    /\ Len(fed) > stats.windowSize_
    /\ <<fed[Len(fed)], 1>> # prior.mean_
    /\ prior.variance_[1] > 0
    /\ stats.m2_[1] > 0

(***************************************************************************)
(* Claims about the state-machine scenario                                 *)
(***************************************************************************)
\* currentSignal() after the five calls of the scenario
StateMachineExpected == <<"LONG", "LONG", "FLAT", "SHORT", "FLAT">>

Owners(addr) == {o \in Objects : objs[o].alive /\ objs[o].addr = addr}

\* C29: across construction, move-construction, move-assignment
\* (self-assignment included) and destruction, each established mapping is
\* owned by exactly one reader until it is unmapped, it is unmapped at most
\* once and then no reader holds it (so exactly once when its owner has gone),
\* and a moved-from reader holds no mapping: isValid() is false and next
\* returns false
C29_MappingOwnedOnceUnmappedOnce ==
    /\ \A addr \in 1 .. Len(maps) :
          /\ maps[addr].mapped => (Cardinality(Owners(addr)) = 1 /\ maps[addr].unmaps = 0)
          /\ ~maps[addr].mapped => (Owners(addr) = {} /\ maps[addr].unmaps = 1)
    /\ \A o \in Objects :
          /\ (objs[o].alive /\ objs[o].mapped) => objs[o].addr \in 1 .. Len(maps)
          /\ (objs[o].alive /\ objs[o].movedFrom) =>
                /\ ~objs[o].mapped /\ objs[o].addr = 0
                /\ ~isValid(objs[o])
                /\ next(objs[o], BlankTick).ret = "false"

\* a mapping that went from one object to another and was unmapped by the
\* destructor of the second, the moved-from object still alive
C29_Witness ==
    /\ Len(maps) >= 2
    /\ ~maps[1].mapped /\ maps[1].unmaps = 1
    /\ maps[2].mapped
    /\ \E o \in Objects : objs[o].alive /\ objs[o].movedFrom
    /\ \E o \in Objects : objs[o].alive /\ objs[o].addr = 2 /\ objs[o].position_ > 8

(***************************************************************************)
(* Claims about the ring's indices                                         *)
(***************************************************************************)
\* empty(), lines 90-93: head_.load(acquire) == tail_.load(acquire)
empty == head_ = tail_

\* size(), lines 95-99: (tail - head) & mask_, the difference taken in size_t
size == BitAnd((tail_ - head_ + SizeModulus) % SizeModulus, mask_)

\* no tryPush and no tryPop is in progress
NoCallInProgress == cpc = "idle" /\ \A p \in ProducerIds : ppc[p] = "idle"

\* the indices of the slots that hold an item
NonNullSlots == {i \in DOMAIN buffer_ : buffer_[i] # NULL}

\* the indices head, head+1, ..., tail-1 (mod capacity)
HeadToTail ==
    {(head_ + k) % capacity_ : k \in 0 .. ((tail_ - head_ + capacity_) % capacity_) - 1}

\* C35: the ring never wedges: there is no reachable state in which a slot
\* holds an item while every future tryPop and every future tryPush fails
\* (head = tail makes every tryPop fail, a non-null slot at tail makes every
\* tryPush fail, and neither call changes the ring), so every item whose
\* tryPush returned true is eventually returned by a tryPop
C35_RingNeverWedges ==
    ~ /\ alive
      /\ NoCallInProgress
      /\ head_ = tail_
      /\ buffer_[tail_] # NULL
      /\ BitAnd(tail_ + 1, mask_) # head_

\* C36: with several producers, every store to tail made by a successful
\* tryPush sets it to (value of tail immediately before the store + 1) mod
\* capacity, so tail is never moved back
C36_TailOnlyAdvances ==
    [][\A p \in ProducerIds :
          PushStoreTail(p) => tail_' = (tail_ + 1) % capacity_]_vars

\* C37: with one producer and one consumer, whenever no call is in progress
\* the non-null slots are exactly the slots at indices head, head+1, ...,
\* tail-1 (mod capacity), size() equals their number, and empty() is true
\* exactly when there are none
C37_SlotsBetweenHeadAndTail ==
    NoCallInProgress =>
        /\ NonNullSlots = HeadToTail
        /\ size = (tail_ - head_ + capacity_) % capacity_
        /\ size = Cardinality(NonNullSlots)
        /\ empty <=> NonNullSlots = {}

\* the ring after it wrapped: head is ahead of tail and two items are held
C37_Witness ==
    /\ alive
    /\ NoCallInProgress
    /\ tail_ < head_
    /\ size = 2
    /\ Cardinality(NonNullSlots) = 2
    /\ Len(popped) >= 1

RECURSIVE TotalPnl(_)
TotalPnl(trades) ==
    IF trades = <<>> THEN 0
    ELSE trades[1].pnl + TotalPnl(Tail(trades))

C38_PositionFollowsSignal ==
    /\ [](rn.pc = "loop" =>
            /\ bt.currentPosition_ = gen.currentSignal_
            /\ ~isReady(stats) => bt.currentPosition_ = "FLAT")
    /\ [][RunTick =>
            /\ ~(bt.currentPosition_ = "LONG" /\ bt'.currentPosition_ = "SHORT")
            /\ ~(bt.currentPosition_ = "SHORT" /\ bt'.currentPosition_ = "LONG")]_vars

\* in the loop with ready statistics, a position open after an earlier one
\* went to FLAT
C38_Witness ==
    /\ rn.pc = "loop"
    /\ isReady(stats)
    /\ bt.currentPosition_ # "FLAT"
    /\ gen.currentSignal_ = bt.currentPosition_
    /\ rn.toFlat >= 1

\* C40: after run, if the trade log is empty then no position was ever
\* opened, equity equals the starting capital 100000 and the equity curve
\* holds only the initial sample; so the zero total_return, win_rate and
\* avg_trade_length of the empty-trades branch agree with the general formulas
C40_EmptyLogMeansUntouched ==
    (rn.pc = "done" /\ bt.trades_ = <<>>) =>
        /\ rn.opens = 0
        /\ bt.currentPosition_ = "FLAT"
        /\ bt.equity_ = StartingCapital
        /\ bt.equityCurve_ = <<StartingCapital>>
        /\ bt.equityTimestamps_ = <<0>>
        /\ rn.metrics.totalReturn = Rat(bt.equity_ - StartingCapital, StartingCapital)
        /\ rn.metrics.totalReturn = Zero
        /\ rn.metrics.winRate = Zero
        /\ rn.metrics.avgTradeLength = Zero
        /\ rn.metrics.totalTrades = 0

\* a run over ticks that made the statistics ready and opened no position
C40_Witness ==
    /\ rn.pc = "done"
    /\ bt.trades_ = <<>>
    /\ rn.tickCount > WindowSize
    /\ isReady(stats)
    /\ rn.metrics.totalTicks = rn.tickCount

(***************************************************************************)
(* Claims about fills, about run's times and about run called again        *)
(***************************************************************************)
\* +1 for LONG, -1 for SHORT
Sign(direction) == IF direction = "LONG" THEN 1 ELSE -1

\* what a position opened and closed at the same mid costs, in cents:
\* 2 * slippage * M + 2 * commission
RoundTripCost == 2 * SlippageTicks * TickSize * Multiplier + 2 * Commission

C34_StartAndEndAreFirstAndLastTimestamp ==
    \A i \in 1 .. Len(runs) :
        feed # <<>> =>
            /\ runs[i].startTime = feed[1].timestamp
            /\ runs[i].endTime = feed[Len(feed)].timestamp
            /\ runs[i].metrics.ticksPerSecond
                  = TicksPerSecond(feed[1].timestamp, feed[Len(feed)].timestamp,
                                   Len(feed))

\* C39: run starts from a clean state whatever happened before: calling run
\* twice on the same Backtester with the same readable file and threshold
\* yields the same trade log, the same equity curve and the same metrics
C39_RunTwiceSameResult ==
    \A i \in 1 .. Len(runs) :
        /\ runs[i].bt.trades_ = runs[1].bt.trades_
        /\ runs[i].bt.equityCurve_ = runs[1].bt.equityCurve_
        /\ runs[i].bt.equityTimestamps_ = runs[1].bt.equityTimestamps_
        /\ runs[i].metrics = runs[1].metrics
        /\ runs[i].bt.equity_ = runs[1].bt.equity_

\* run called a second time on a Backtester whose first run traded and left
\* the equity away from the starting capital
C39_Witness ==
    /\ Len(runs) = 2
    /\ Len(runs[1].bt.trades_) >= 1
    /\ runs[1].bt.equity_ # StartingCapital
    /\ runs[1].bt.maxDrawdown_ # Zero
    /\ bt = runs[2].bt

====
